---- MODULE Spec2Model ----
(***************************************************************************)
(* A model of carta's conversation-tree parser: process_nodes              *)
(* (parser/node_processor.py), the path analysis it calls                  *)
(* (parser/path_analyzer.py) and create_pairs (parser/pair_creator.py),    *)
(* and of the enrichment that follows it: CartaEmbedder                    *)
(* (embedder/embedder.py), the provider wrapper (embedder/openai_utils.py) *)
(* and the semantic passes (embedder/semantic_analyzer.py).                *)
(*                                                                         *)
(* Spec runs process_nodes and create_pairs on any mapping; SpecParse      *)
(* starts one step earlier, at _parse_conversation; SpecSem continues      *)
(* the parse with the embedding and semantic-derivation stages.            *)
(* SpecPasses runs the three semantic passes node by node in any order,    *)
(* SpecBatch one get_embeddings_batch call, SpecContent one content        *)
(* extraction, SpecStore a parse followed by store_conversation            *)
(* (db/client.py) and SpecFiles one Pipeline.process_files call            *)
(* (pipeline.py).                                                          *)
(*                                                                         *)
(* Node ids are the non-empty string keys of the export's mapping; they    *)
(* are modelled as the integers 1..NumNodes, in the mapping's iteration    *)
(* order.  Python's None is modelled as 0, so that the truth test of an id *)
(* (`while node_id:`, `not parent_id`) is `id # None`.                     *)
(***************************************************************************)
EXTENDS Integers, Sequences, FiniteSets, TLC

VARIABLES
    mapping,          \* the export's raw mapping: id -> [parent, children, role, text]
    data,             \* the export's top-level keys the parser reads besides mapping
    root_id,          \* conversation['root_id']
    current_node_id,  \* the argument current_node_id of process_nodes
    nodes,            \* process_nodes' dict `nodes`
    mainline_path,    \* determine_mainline_path's list `mainline_path`
    node_id,          \* determine_mainline_path's loop variable `node_id`
    pairs,            \* the list create_pairs returns
    pc,               \* the position in _parse_conversation / process_conversation
    pass_pos,         \* per semantic pass, the number of nodes its loop has handled
    batch_state,      \* one get_embeddings_batch invocation (fields emb_* below)
    content_state,    \* one content extraction (fields ct_* below)
    store_state,      \* the database and one store_conversation call (db_*, st_* below)
    pipeline_state    \* one process_files call (fields pl_* below)

\* get_embeddings_batch's argument `texts`
emb_texts == batch_state.texts

\* get_embeddings_batch's argument `batch_size`
emb_batch_size == batch_state.batch_size

\* get_embeddings_batch's loop variable `i`
emb_i == batch_state.i

\* get_embeddings_batch's list `all_embeddings`
emb_all == batch_state.all_embeddings

\* the provider calls and time.sleep calls made so far, in order
emb_log == batch_state.log

\* the list get_embeddings_batch returns
emb_result == batch_state.result

\* a raw message's `content` payload
ct_content == content_state.content

\* the text _extract_content returns for it
ct_text == content_state.text

\* the content type _extract_content returns for it
ct_type == content_state.content_type

\* the text _extract_node_text hands to the provider
ct_provider_text == content_state.provider_text

\* the durable rows of the database, per table
db_committed == store_state.committed

\* the rows written in the open transaction, per table
db_pending == store_state.pending

\* the step of store_conversation that raised, or "none"
st_failed_at == store_state.failed_at

\* process_files' argument: the export files
pl_files == pipeline_state.file_paths

\* what the file being processed holds
pl_data == pipeline_state.data

\* the number of files process_files has finished
pl_file == pipeline_state.file

\* parse_file's `results` for the file being processed
pl_parsed == pipeline_state.parsed

\* the number of conversations of the file handed to the store
pl_store_i == pipeline_state.store_i

\* process_file's list `conversation_ids`
pl_ids == pipeline_state.conversation_ids

\* process_files' dict `results`, in file order
pl_results == pipeline_state.results

\* the failures of the earlier files and the events of this one
pl_log == pipeline_state.log

\* The variables of the parse.
parse_vars == <<mapping, data, root_id, current_node_id, nodes, mainline_path, node_id, pairs>>

\* The variables of the stages modelled apart from the parse.
aux_vars == <<pass_pos, batch_state, content_state, store_state, pipeline_state>>

\* aux_vars without the variable of one stage.
aux_but_pass == <<batch_state, content_state, store_state, pipeline_state>>

aux_but_batch == <<pass_pos, content_state, store_state, pipeline_state>>

aux_but_content == <<pass_pos, batch_state, store_state, pipeline_state>>

aux_but_store == <<pass_pos, batch_state, content_state, pipeline_state>>

aux_but_pipeline == <<pass_pos, batch_state, content_state, store_state>>

vars == <<mapping, data, root_id, current_node_id, nodes, mainline_path, node_id, pairs, pc,
          aux_vars>>

---------------------------------------------------------------------------
(* Bounds and the input domain *)

\* Number of entries of the export's mapping.
NumNodes == 3

\* Python's None.
None == 0

\* The ids of the mapping, in its iteration order.
Ids == 1..NumNodes

\* An id that is not a key of the mapping (a dangling reference).
Dangling == NumNodes + 1

\* The upward walk of determine_mainline_path has no bound of its own; the
\* model follows it for at most MaxWalk appended ids.
MaxWalk == NumNodes + 2

Roles == {"user", "assistant", "system"}

\* A parent reference of the export: null, a key of the mapping, or dangling.
ParentRefs == {None} \cup Ids \cup {Dangling}

\* What a current-node argument can be: null, a key, or an unknown id.
CurrentRefs == {None} \cup Ids \cup {Dangling}

---------------------------------------------------------------------------
(* Python helpers *)

\* Truth value of an Optional[str] holding a non-empty id.
Truthy(x) == x # None

\* dict.get(key): None when the key is absent.
Get(d, key) == IF key \in DOMAIN d THEN d[key] ELSE None

\* list.reverse()
Reverse(s) == [i \in 1..Len(s) |-> s[Len(s) + 1 - i]]

\* `x in list`
InSeq(x, s) == \E i \in 1..Len(s) : s[i] = x

\* set(list)
SetOf(s) == {s[i] : i \in 1..Len(s)}

\* The keys of the mapping, as the sequence dict iteration yields them.
KeyOrder == [i \in 1..NumNodes |-> i]

RECURSIVE Flatten(_)
\* Concatenation of a sequence of sequences (successive list.append calls).
Flatten(ss) == IF ss = <<>> THEN <<>> ELSE Head(ss) \o Flatten(Tail(ss))

\* The ids of the mapping whose parent reference is p, in mapping order: the
\* children list a consistent export declares for p.
ChildrenOf(parent, p) == SelectSeq(KeyOrder, LAMBDA c : parent[c] = p)

---------------------------------------------------------------------------
(* parser/path_analyzer.py *)

RECURSIVE PathWalk_AppendRepeat(_, _, _)
\* PathWalk with the cycle test made after the append: the repeated id is
\* appended once more before the loop stops.
PathWalk_AppendRepeat(ns, path, current_id) ==
    IF ~Truthy(current_id) THEN path
    ELSE LET path1 == Append(path, current_id)
             parent_id == Get(ns[current_id], "parent_id")
         IN  IF parent_id = None \/ parent_id \notin DOMAIN ns THEN path1
             ELSE IF InSeq(parent_id, path1) THEN Append(path1, parent_id)
             ELSE PathWalk_AppendRepeat(ns, path1, parent_id)

RECURSIVE PathWalk(_, _, _)
\* The while loop of compute_path_from_root; `path` is in append order.
PathWalk(ns, path, current_id) ==
    IF ~Truthy(current_id) THEN path
    ELSE LET path1 == Append(path, current_id)
             parent_id == Get(ns[current_id], "parent_id")
         IN  IF parent_id = None \/ parent_id \notin DOMAIN ns THEN path1
             ELSE IF InSeq(parent_id, path1) THEN path1
             ELSE PathWalk(ns, path1, parent_id)

\* compute_path_from_root without the final path.reverse().
compute_path_from_root_NoReverse(ns, n) ==
    IF n \notin DOMAIN ns THEN <<>>
    ELSE PathWalk(ns, <<>>, n)

compute_path_from_root(ns, n) ==
    IF n \notin DOMAIN ns THEN <<>>
    ELSE Reverse(PathWalk(ns, <<>>, n))

RECURSIVE DivergenceScan_FirstCommon(_, _, _, _)
\* DivergenceScan that returns at the first index where the paths agree.
DivergenceScan_FirstCommon(path, ml, i, last_common) ==
    LET min_length == IF Len(path) < Len(ml) THEN Len(path) ELSE Len(ml)
    IN  IF i > min_length THEN last_common
        ELSE IF path[i] = ml[i] THEN path[i]
        ELSE last_common

RECURSIVE DivergenceScan(_, _, _, _)
\* The for loop of find_divergence_point from index i on.
DivergenceScan(path, ml, i, last_common) ==
    LET min_length == IF Len(path) < Len(ml) THEN Len(path) ELSE Len(ml)
    IN  IF i > min_length THEN last_common
        ELSE IF path[i] = ml[i] THEN DivergenceScan(path, ml, i + 1, path[i])
        ELSE last_common

find_divergence_point(path, ml) ==
    IF path = <<>> \/ ml = <<>> THEN None
    ELSE DivergenceScan(path, ml, 1, None)

\* The keys of the export mapping whose 'parent' is None, in mapping order.
find_root_nodes(mp) ==
    SelectSeq(KeyOrder, LAMBDA n : mp[n].parent = None)

\* find_current_node with the fallback taking root_nodes[0].
find_current_node_FirstRoot(d, mp) ==
    IF "current_node" \in DOMAIN d THEN d["current_node"]
    ELSE LET root_nodes == find_root_nodes(mp)
         IN  IF root_nodes # <<>> THEN root_nodes[1] ELSE None

\* data['current_node'] when the key is present, else root_nodes[-1] or None.
find_current_node(d, mp) ==
    IF "current_node" \in DOMAIN d THEN d["current_node"]
    ELSE LET root_nodes == find_root_nodes(mp)
         IN  IF root_nodes # <<>> THEN root_nodes[Len(root_nodes)] ELSE None

---------------------------------------------------------------------------
(* parser/node_processor.py *)

\* The dict extract_node_data returns, with the keys the later stages read:
\* message.author.role and message.content.text are nested under 'message'
\* (there is no top-level 'role' or 'content', and no 'is_user').
extract_node_data(n, node_data) ==
    [id |-> n,
     parent_id |-> node_data.parent,
     children_ids |-> node_data.children,
     message |-> [author |-> [role |-> node_data.role],
                  content |-> [text |-> node_data.text]]]

\* count_siblings without the `child_id != node_id` filter.
count_siblings_IncludingSelf(ns, n) ==
    LET parent_id == Get(ns[n], "parent_id")
    IN  IF ~Truthy(parent_id) \/ parent_id \notin DOMAIN ns THEN 0
        ELSE Len(Get(ns[parent_id], "children_ids"))

count_siblings(ns, n) ==
    LET parent_id == Get(ns[n], "parent_id")
    IN  IF ~Truthy(parent_id) \/ parent_id \notin DOMAIN ns THEN 0
        ELSE Len(SelectSeq(Get(ns[parent_id], "children_ids"),
                           LAMBDA child_id : child_id # n))

is_regeneration(ns, n) ==
    IF Truthy(Get(ns[n], "is_user")) THEN FALSE
    ELSE LET parent_id == Get(ns[n], "parent_id")
         IN  IF ~Truthy(parent_id) \/ parent_id \notin DOMAIN ns THEN FALSE
             ELSE IF ~Truthy(Get(ns[parent_id], "is_user")) THEN FALSE
             ELSE LET assistant_siblings ==
                          SelectSeq(Get(ns[parent_id], "children_ids"),
                                    LAMBDA child_id :
                                        /\ child_id \in DOMAIN ns
                                        /\ ~Truthy(Get(ns[child_id], "is_user")))
                  IN  Len(assistant_siblings) > 1

\* compute_turn_number counting from 0.
compute_turn_number_ZeroBased(ns, n) == Len(compute_path_from_root(ns, n)) - 1

compute_turn_number(ns, n) == Len(compute_path_from_root(ns, n))

determine_generation_type(ns, n) ==
    IF Truthy(Get(ns[n], "is_user"))
    THEN IF ~Truthy(Get(ns[n], "parent_id")) THEN "initial_prompt"
         ELSE "user_continuation"
    ELSE IF is_regeneration(ns, n) THEN "regeneration"
         ELSE "standard_response"

\* mainline_nodes holding the mainline's endpoint only.
mainline_nodes_EndpointOnly(ml) == IF ml = <<>> THEN {} ELSE {ml[Len(ml)]}

\* mainline_nodes = set(mainline_path)
mainline_nodes(ml) == SetOf(ml)

\* The record process_nodes stores as node['derived'].
DerivedOf(ns, n, ml) ==
    LET path_from_root == compute_path_from_root(ns, n)
    IN  [path_from_root |-> path_from_root,
         is_mainline |-> n \in mainline_nodes(ml),
         is_terminal |-> ns[n].children_ids = <<>>,
         siblings_count |-> count_siblings(ns, n),
         branch_depth |-> IF path_from_root # <<>> THEN Len(path_from_root) - 1 ELSE 0,
         is_regeneration |-> is_regeneration(ns, n),
         mainline_divergence_point |->
             IF n \notin mainline_nodes(ml)
             THEN find_divergence_point(path_from_root, ml) ELSE None,
         replaced_node_id |-> None,
         semantic_distance_from_parent |-> None,
         turn_number |-> compute_turn_number(ns, n),
         generation_type |-> determine_generation_type(ns, n)]

---------------------------------------------------------------------------
(* parser/pair_creator.py *)

\* MakePair with is_mainline taken from the prompt node alone.
MakePair_PromptOnly(ns, u, c) ==
    LET is_mainline == ns[u].derived.is_mainline
    IN  [id |-> <<u, c>>,
         prompt_id |-> u,
         response_id |-> c,
         is_mainline |-> is_mainline,
         is_alternate |-> ~is_mainline,
         turn_number |-> ns[c].derived.turn_number \div 2,
         branch_depth |-> ns[c].derived.branch_depth,
         path_from_root |-> ns[u].derived.path_from_root]

\* MakePair with path_from_root copied from the response node.
MakePair_PathFromResponse(ns, u, c) ==
    LET is_mainline == ns[u].derived.is_mainline /\ ns[c].derived.is_mainline
    IN  [id |-> <<u, c>>,
         prompt_id |-> u,
         response_id |-> c,
         is_mainline |-> is_mainline,
         is_alternate |-> ~is_mainline,
         turn_number |-> ns[c].derived.turn_number \div 2,
         branch_depth |-> ns[c].derived.branch_depth,
         path_from_root |-> ns[c].derived.path_from_root]

\* The dict create_pairs appends for prompt node u and response node c.
\* The id f"{u}_{c}" is modelled as the tuple <<u, c>>.
MakePair(ns, u, c) ==
    LET is_mainline == ns[u].derived.is_mainline /\ ns[c].derived.is_mainline
    IN  [id |-> <<u, c>>,
         prompt_id |-> u,
         response_id |-> c,
         is_mainline |-> is_mainline,
         is_alternate |-> ~is_mainline,
         turn_number |-> ns[c].derived.turn_number \div 2,
         branch_depth |-> ns[c].derived.branch_depth,
         path_from_root |-> ns[u].derived.path_from_root]

\* The children of u that pass the inner loop's tests, in children order.
ResponseChildren(ns, u) ==
    SelectSeq(ns[u].children_ids,
              LAMBDA c : c \in DOMAIN ns /\ ns[c].message.author.role = "assistant")

\* PairsOf that keeps one pair per prompt (regenerations deduplicated).
PairsOf_FirstResponseOnly(ns, u) ==
    IF ns[u].message.author.role # "user" THEN <<>>
    ELSE LET cs == ResponseChildren(ns, u)
         IN  IF cs = <<>> THEN <<>> ELSE <<MakePair(ns, u, cs[1])>>

\* The pairs the inner loop appends for one node of the outer loop.
PairsOf(ns, u) ==
    IF ns[u].message.author.role # "user" THEN <<>>
    ELSE LET cs == ResponseChildren(ns, u)
         IN  [k \in 1..Len(cs) |-> MakePair(ns, u, cs[k])]

create_pairs(ns) == Flatten([k \in 1..NumNodes |-> PairsOf(ns, KeyOrder[k])])

---------------------------------------------------------------------------
(* embedder/openai_utils.py *)

\* Python floats are written in fixed point: the float v is the integer
\* FloatTag + v * FloatUnit, so that no float equals None or a node id.
FloatUnit == 12

FloatTag == 1000

\* float('nan'), the result of numpy's 0.0 / 0.0.
NaN == FloatTag - 1

\* The float with k units of 1/FloatUnit.
Float(k) == FloatTag + k

\* The number of 1/FloatUnit units in the finite float f.
Units(f) == f - FloatTag

\* self.dimension, the length of every embedding vector.
Dimension == 2

\* [0.0] * self.dimension
ZeroVector == [i \in 1..Dimension |-> 0]

\* The embedding vectors the provider answers with.
Vectors == {<<1, 0>>, <<0, 1>>}

\* str.strip() leaves nothing (the text is empty or only whitespace).
StripsToEmpty(text) == text \in {"", " "}

\* np.dot(vec1, vec2)
Dot(v, w) == v[1] * w[1] + v[2] * w[2]

\* np.linalg.norm(vec)
Norm(v) == CHOOSE r \in 0..(v[1] + v[2]) : r * r = Dot(v, v)

\* calculate_cosine_similarity: 0.0 for an empty list, else dot / (norm * norm),
\* which numpy evaluates to nan when a norm is 0.
calculate_cosine_similarity(embedding1, embedding2) ==
    IF embedding1 = <<>> \/ embedding2 = <<>> THEN Float(0)
    ELSE IF Norm(embedding1) * Norm(embedding2) = 0 THEN NaN
    ELSE Float((Dot(embedding1, embedding2) * FloatUnit)
                   \div (Norm(embedding1) * Norm(embedding2)))

\* calculate_cosine_distance: 1.0 - similarity (nan stays nan).
calculate_cosine_distance(embedding1, embedding2) ==
    LET similarity == calculate_cosine_similarity(embedding1, embedding2)
    IN  IF similarity = NaN THEN NaN ELSE Float(FloatUnit - Units(similarity))

RECURSIVE Reinsert(_, _, _, _)
\* The last loop of get_embeddings_batch: a zero vector at every empty index,
\* the next element of all_embeddings elsewhere.
Reinsert(texts, all_embeddings, i, valid_idx) ==
    IF i > Len(texts) THEN <<>>
    ELSE IF StripsToEmpty(texts[i])
         THEN <<ZeroVector>> \o Reinsert(texts, all_embeddings, i + 1, valid_idx)
         ELSE <<all_embeddings[valid_idx]>>
                  \o Reinsert(texts, all_embeddings, i + 1, valid_idx + 1)

\* get_embeddings_batch for at most batch_size texts (one provider call).
\* `response` is what the call produced: response.raised when it raised, else
\* response.data holds the vectors of the valid texts in their order.
get_embeddings_batch(texts, response) ==
    IF texts = <<>> THEN <<>>
    ELSE LET valid_texts == SelectSeq(texts, LAMBDA t : ~StripsToEmpty(t))
             all_embeddings ==
                 IF valid_texts = <<>> THEN <<>>
                 ELSE IF response.raised
                      THEN [i \in 1..Len(valid_texts) |-> ZeroVector]
                      ELSE response.data
         IN  Reinsert(texts, all_embeddings, 1, 1)

\* format_pair_for_embedding
format_pair_for_embedding(prompt_text, response_text) ==
    "|Prompt from user:\n---\n" \o prompt_text
        \o "\n\n|Response from assistant:\n---\n" \o response_text

---------------------------------------------------------------------------
(* embedder/embedder.py and embedder/semantic_analyzer.py *)

\* d[k] = v on a dict.
SetKey(d, k, v) == [x \in DOMAIN d \cup {k} |-> IF x = k THEN v ELSE d[x]]

\* Truth value of node.get('embedding'): the key is there and the list is
\* not empty.
EmbeddingTruthy(node) == "embedding" \in DOMAIN node /\ node.embedding # <<>>

\* node.get('embedding') as calculate_cosine_similarity reads it: a missing
\* embedding is as falsy as an empty list.
EmbeddingOrEmpty(node) == IF "embedding" \in DOMAIN node THEN node.embedding ELSE <<>>

\* SetDerivedField that starts from a fresh derived dict.
SetDerivedField_FreshDict(node, key, value) ==
    SetKey(node, "derived", SetKey([x \in {} |-> None], key, value))

\* if 'derived' not in node: node['derived'] = {}; node['derived'][key] = value
SetDerivedField(node, key, value) ==
    LET derived == IF "derived" \in DOMAIN node THEN node.derived
                   ELSE [x \in {} |-> None]
    IN  SetKey(node, "derived", SetKey(derived, key, value))

\* _extract_node_text on a parsed node: message.content.text.
extract_node_text(node) == node.message.content.text

\* The answers the provider can give to a call with k valid texts.
ProviderResponses(k) ==
    {[raised |-> TRUE, data |-> <<>>]}
        \cup {[raised |-> FALSE, data |-> d] : d \in [1..k -> Vectors]}

\* The answers drawn for the pair texts: an error, or the same vector for all.
PairProviderResponses(k) ==
    {[raised |-> TRUE, data |-> <<>>],
     [raised |-> FALSE, data |-> [i \in 1..k |-> <<1, 0>>]]}

\* The ids _process_nodes collects a text for (`if text:`), in dict order.
EmbeddedNodeIds(ns) ==
    SelectSeq(KeyOrder, LAMBDA n : extract_node_text(ns[n]) # "")

\* The texts _process_nodes hands to get_embeddings_batch.
NodeTexts(ns) ==
    [i \in 1..Len(EmbeddedNodeIds(ns)) |-> extract_node_text(ns[EmbeddedNodeIds(ns)[i]])]

\* CartaEmbedder._process_nodes
CartaEmbedder_process_nodes(ns, response) ==
    LET node_ids == EmbeddedNodeIds(ns)
        embeddings == get_embeddings_batch(NodeTexts(ns), response)
    IN  [n \in DOMAIN ns |->
            IF \E idx \in 1..Len(node_ids) : node_ids[idx] = n
            THEN SetKey(ns[n], "embedding",
                        embeddings[CHOOSE idx \in 1..Len(node_ids) : node_ids[idx] = n])
            ELSE ns[n]]

\* The indexes of the pairs _process_pairs keeps in valid_pairs.
ValidPairs(ps, ns) ==
    SelectSeq([i \in 1..Len(ps) |-> i],
              LAMBDA i : /\ Truthy(ps[i].prompt_id) /\ Truthy(ps[i].response_id)
                         /\ ps[i].prompt_id \in DOMAIN ns
                         /\ ps[i].response_id \in DOMAIN ns)

\* The text _process_pairs produces for a kept pair.
PairText(pair, ns) ==
    LET prompt_text == extract_node_text(ns[pair.prompt_id])
        response_text == extract_node_text(ns[pair.response_id])
    IN  IF prompt_text # "" /\ response_text # ""
        THEN format_pair_for_embedding(prompt_text, response_text)
        ELSE ""

\* The texts _process_pairs hands to get_embeddings_batch.
PairTexts(ps, ns) ==
    [k \in 1..Len(ValidPairs(ps, ns)) |-> PairText(ps[ValidPairs(ps, ns)[k]], ns)]

\* CartaEmbedder._process_pairs
CartaEmbedder_process_pairs(ps, ns, response) ==
    LET valid_pairs == ValidPairs(ps, ns)
        embeddings == get_embeddings_batch(PairTexts(ps, ns), response)
    IN  [i \in 1..Len(ps) |->
            IF \E idx \in 1..Len(valid_pairs) : valid_pairs[idx] = i
            THEN SetKey(ps[i], "embedding",
                        embeddings[CHOOSE idx \in 1..Len(valid_pairs) : valid_pairs[idx] = i])
            ELSE ps[i]]

RECURSIVE FloatSum(_)
\* sum(sibling_distances): nan as soon as one term is nan.
FloatSum(fs) ==
    IF fs = <<>> THEN Float(0)
    ELSE LET rest == FloatSum(Tail(fs))
         IN  IF Head(fs) = NaN \/ rest = NaN THEN NaN
             ELSE Float(Units(Head(fs)) + Units(rest))

\* total / len(sibling_distances)
FloatDiv(f, k) == IF f = NaN THEN NaN ELSE Float(Units(f) \div k)

\* calculate_parent_child_distances that tests the parent's embedding only.
calculate_parent_child_distances_ParentOnly(ns) ==
    [n \in DOMAIN ns |->
        LET node == ns[n]
            parent_id == Get(node, "parent_id")
        IN  IF /\ Truthy(parent_id) /\ parent_id \in DOMAIN ns
               /\ EmbeddingTruthy(ns[parent_id])
            THEN SetDerivedField(node, "semantic_distance_from_parent",
                     calculate_cosine_distance(ns[parent_id].embedding,
                                               EmbeddingOrEmpty(node)))
            ELSE node]

\* calculate_parent_child_distances (the same statements open the driver's
\* _calculate_semantic_ancestry).  Each node's update reads embeddings only.
calculate_parent_child_distances(ns) ==
    [n \in DOMAIN ns |->
        LET node == ns[n]
            parent_id == Get(node, "parent_id")
        IN  IF /\ Truthy(parent_id) /\ parent_id \in DOMAIN ns
               /\ EmbeddingTruthy(ns[parent_id]) /\ EmbeddingTruthy(node)
            THEN SetDerivedField(node, "semantic_distance_from_parent",
                     calculate_cosine_distance(ns[parent_id].embedding, node.embedding))
            ELSE node]

\* The siblings list of the sibling pass: the other nodes with the same
\* parent_id, in dict order.
SiblingIds(ns, n) ==
    SelectSeq(KeyOrder, LAMBDA s : Get(ns[s], "parent_id") = Get(ns[n], "parent_id") /\ s # n)

\* calculate_sibling_distances that divides by the number of all siblings.
calculate_sibling_distances_AllSiblings(ns) ==
    [n \in DOMAIN ns |->
        LET node == ns[n]
            parent_id == Get(node, "parent_id")
            siblings == SiblingIds(ns, n)
            embedded == SelectSeq(siblings, LAMBDA s : "embedding" \in DOMAIN ns[s])
            sibling_distances ==
                [i \in 1..Len(embedded) |->
                    calculate_cosine_distance(node.embedding, ns[embedded[i]].embedding)]
        IN  IF /\ Truthy(parent_id) /\ parent_id \in DOMAIN ns
               /\ siblings # <<>> /\ "embedding" \in DOMAIN node
               /\ sibling_distances # <<>>
            THEN SetDerivedField(node, "avg_sibling_semantic_distance",
                     FloatDiv(FloatSum(sibling_distances), Len(siblings)))
            ELSE node]

\* calculate_sibling_distances (the same statements form the second loop of
\* the driver's _calculate_semantic_ancestry).
calculate_sibling_distances(ns) ==
    [n \in DOMAIN ns |->
        LET node == ns[n]
            parent_id == Get(node, "parent_id")
            siblings == SiblingIds(ns, n)
            embedded == SelectSeq(siblings, LAMBDA s : "embedding" \in DOMAIN ns[s])
            sibling_distances ==
                [i \in 1..Len(embedded) |->
                    calculate_cosine_distance(node.embedding, ns[embedded[i]].embedding)]
        IN  IF /\ Truthy(parent_id) /\ parent_id \in DOMAIN ns
               /\ siblings # <<>> /\ "embedding" \in DOMAIN node
               /\ sibling_distances # <<>>
            THEN SetDerivedField(node, "avg_sibling_semantic_distance",
                     FloatDiv(FloatSum(sibling_distances), Len(sibling_distances)))
            ELSE node]

\* node.get('derived', {}).get('is_mainline', False)
IsMainlineNode(node) ==
    "derived" \in DOMAIN node /\ "is_mainline" \in DOMAIN node.derived
        /\ node.derived.is_mainline

\* calculate_branch_mainline_distances
calculate_branch_mainline_distances(ns) ==
    [n \in DOMAIN ns |->
        LET node == ns[n]
            divergence_point == Get(Get(node, "derived"), "mainline_divergence_point")
        IN  IF /\ ~IsMainlineNode(node)
               /\ Truthy(divergence_point) /\ divergence_point \in DOMAIN ns
               /\ IsMainlineNode(ns[divergence_point])
               /\ EmbeddingTruthy(node) /\ EmbeddingTruthy(ns[divergence_point])
            THEN SetDerivedField(node, "semantic_distance_from_mainline",
                     calculate_cosine_distance(node.embedding,
                                               ns[divergence_point].embedding))
            ELSE node]

\* calculate_semantic_ancestry of semantic_analyzer.py: the three passes.
calculate_semantic_ancestry(ns) ==
    calculate_branch_mainline_distances(
        calculate_sibling_distances(calculate_parent_child_distances(ns)))

\* The mainline nodes at the turn number of node n, in dict order (the driver
\* takes the first).
MainlineAtTurn(ns, n) ==
    SelectSeq(KeyOrder, LAMBDA m : /\ IsMainlineNode(ns[m])
                                   /\ ns[m].derived.turn_number = ns[n].derived.turn_number)

\* The last loop of the driver's _calculate_semantic_ancestry.
DriverMainlineDistances(ns) ==
    [n \in DOMAIN ns |->
        LET branch_node == ns[n]
            mainline_at_turn == MainlineAtTurn(ns, n)
        IN  IF /\ ~IsMainlineNode(branch_node)
               /\ mainline_at_turn # <<>>
               /\ "embedding" \in DOMAIN branch_node
               /\ "embedding" \in DOMAIN ns[mainline_at_turn[1]]
            THEN SetDerivedField(branch_node, "mainline_semantic_distance",
                     calculate_cosine_distance(branch_node.embedding,
                                               ns[mainline_at_turn[1]].embedding))
            ELSE branch_node]

\* CartaEmbedder._calculate_semantic_ancestry
CartaEmbedder_calculate_semantic_ancestry(ns) ==
    DriverMainlineDistances(
        calculate_sibling_distances(calculate_parent_child_distances(ns)))

---------------------------------------------------------------------------
(* The state machine *)

\* The three passes of calculate_semantic_ancestry.
PassNames == {"parent_child", "sibling", "branch_mainline"}

\* No parse is under way.
ParseIdle ==
    /\ mapping = <<>>
    /\ data = <<>>
    /\ root_id = None
    /\ current_node_id = None
    /\ nodes = <<>>
    /\ mainline_path = <<>>
    /\ node_id = None
    /\ pairs = <<>>

\* No semantic pass has started.
PassesIdle == pass_pos = [p \in PassNames |-> 0]

\* No get_embeddings_batch invocation is under way.
BatchIdle == batch_state = <<>>

\* No content extraction is under way.
ContentIdle == content_state = <<>>

\* The three tables of the database, empty.
EmptyTables == [conversations |-> {}, nodes |-> {}, pairs |-> {}]

\* No database is attached and no store_conversation call is under way.
StoreIdle == store_state = <<>>

\* No process_files call is under way.
PipelineIdle == pipeline_state = <<>>

\* The stages modelled apart from the parse have not started.
AuxIdle ==
    /\ PassesIdle
    /\ BatchIdle
    /\ ContentIdle
    /\ StoreIdle
    /\ PipelineIdle

Init ==
    /\ \E parent \in [Ids -> ParentRefs], role \in [Ids -> Roles] :
           mapping = [n \in Ids |->
                         [parent |-> parent[n],
                          children |-> ChildrenOf(parent, n),
                          role |-> role[n],
                          text |-> "hi"]]
    /\ data = <<>>
    /\ root_id = None
    /\ current_node_id \in CurrentRefs
    /\ nodes = <<>>
    /\ mainline_path = <<>>
    /\ node_id = None
    /\ pairs = <<>>
    /\ AuxIdle
    /\ pc = "process_nodes"

\* process_nodes, the first loop: nodes[node_id] = extract_node_data(...).
ExtractNodes ==
    /\ pc = "process_nodes"
    /\ nodes' = [n \in DOMAIN mapping |-> extract_node_data(n, mapping[n])]
    /\ pc' = "determine_mainline_path"
    /\ UNCHANGED <<aux_vars, mapping, data, root_id, current_node_id, mainline_path, node_id, pairs>>

\* MainlineEnter that falls back to the first key of the mapping when the
\* current node is null or unknown.
MainlineEnter_FallbackFirst ==
    /\ pc = "determine_mainline_path"
    /\ mainline_path' = <<>>
    /\ node_id' = IF current_node_id = None \/ current_node_id \notin DOMAIN nodes
                  THEN KeyOrder[1] ELSE current_node_id
    /\ pc' = "mainline_walk"
    /\ UNCHANGED <<aux_vars, mapping, data, root_id, current_node_id, nodes, pairs>>

\* determine_mainline_path up to its loop: the early return, or the start
\* of the upward walk.
MainlineEnter ==
    /\ pc = "determine_mainline_path"
    /\ IF current_node_id = None \/ current_node_id \notin DOMAIN nodes
       THEN /\ mainline_path' = <<>>
            /\ node_id' = node_id
            /\ pc' = "derive"
       ELSE /\ mainline_path' = <<>>
            /\ node_id' = current_node_id
            /\ pc' = "mainline_walk"
    /\ UNCHANGED <<aux_vars, mapping, data, root_id, current_node_id, nodes, pairs>>

\* One iteration of determine_mainline_path's while loop.
MainlineWalkStep ==
    /\ pc = "mainline_walk"
    /\ Len(mainline_path) < MaxWalk
    /\ IF ~Truthy(node_id)
       THEN /\ pc' = "mainline_reverse"
            /\ UNCHANGED <<mainline_path, node_id>>
       ELSE LET parent_id == Get(nodes[node_id], "parent_id")
            IN  /\ mainline_path' = Append(mainline_path, node_id)
                /\ IF parent_id = None \/ parent_id \notin DOMAIN nodes
                   THEN /\ pc' = "mainline_reverse"
                        /\ node_id' = node_id
                   ELSE /\ pc' = "mainline_walk"
                        /\ node_id' = parent_id
    /\ UNCHANGED <<aux_vars, mapping, data, root_id, current_node_id, nodes, pairs>>

\* MainlineReturn without the reverse(): the path stays endpoint-first.
MainlineReturn_NoReverse ==
    /\ pc = "mainline_reverse"
    /\ mainline_path' = mainline_path
    /\ pc' = "derive"
    /\ UNCHANGED <<aux_vars, mapping, data, root_id, current_node_id, nodes, node_id, pairs>>

\* mainline_path.reverse(); return mainline_path
MainlineReturn ==
    /\ pc = "mainline_reverse"
    /\ mainline_path' = Reverse(mainline_path)
    /\ pc' = "derive"
    /\ UNCHANGED <<aux_vars, mapping, data, root_id, current_node_id, nodes, node_id, pairs>>

\* process_nodes, the second loop: node['derived'] = {...} for every node.
DeriveNodes ==
    /\ pc = "derive"
    /\ nodes' = [n \in DOMAIN nodes |->
                    nodes[n] @@ [derived |-> DerivedOf(nodes, n, mainline_path)]]
    /\ pc' = "create_pairs"
    /\ UNCHANGED <<aux_vars, mapping, data, root_id, current_node_id, mainline_path, node_id, pairs>>

\* _parse_conversation: pairs = self._create_pairs(nodes)
CreatePairs ==
    /\ pc = "create_pairs"
    /\ pairs' = create_pairs(nodes)
    /\ pc' = "done"
    /\ UNCHANGED <<aux_vars, mapping, data, root_id, current_node_id, nodes, mainline_path, node_id>>

\* create_pairs called again on the node set it has already been given, with
\* the list of the earlier call kept and extended.
CreatePairsAgain_Accumulate ==
    /\ pc = "done"
    /\ pairs' = pairs \o create_pairs(nodes)
    /\ pc' = "done_again"
    /\ UNCHANGED <<aux_vars, mapping, data, root_id, current_node_id, nodes, mainline_path, node_id>>

\* create_pairs called again on the node set it has already been given: a
\* fresh list (pairs = []) is filled and returned; `nodes` is only read.
CreatePairsAgain ==
    /\ pc = "done"
    /\ pairs' = create_pairs(nodes)
    /\ pc' = "done_again"
    /\ UNCHANGED <<aux_vars, mapping, data, root_id, current_node_id, nodes, mainline_path, node_id>>

\* The roles of the exports InitParse draws.
ParseRoles == {"user", "assistant"}

\* The conversation dict as json.load returns it: 'current_node' may be
\* missing, null, a key of the mapping, or an unknown id.
InitParse ==
    /\ \E parent \in [Ids -> ParentRefs], role \in [Ids -> ParseRoles] :
           mapping = [n \in Ids |->
                         [parent |-> parent[n],
                          children |-> ChildrenOf(parent, n),
                          role |-> role[n],
                          text |-> "hi"]]
    /\ data \in UNION {[K -> CurrentRefs] : K \in SUBSET {"current_node"}}
    /\ root_id = None
    /\ current_node_id = None
    /\ nodes = <<>>
    /\ mainline_path = <<>>
    /\ node_id = None
    /\ pairs = <<>>
    /\ AuxIdle
    /\ pc = "parse"

\* _parse_conversation up to the call of process_nodes: no root is an error
\* return; otherwise root_id and the current node are recorded.
ParseConversation ==
    /\ pc = "parse"
    /\ LET root_nodes == find_root_nodes(mapping)
       IN  IF root_nodes = <<>>
           THEN /\ pc' = "failed"
                /\ UNCHANGED <<root_id, current_node_id>>
           ELSE /\ root_id' = root_nodes[1]
                /\ current_node_id' = find_current_node(data, mapping)
                /\ pc' = "process_nodes"
    /\ UNCHANGED <<aux_vars, mapping, data, nodes, mainline_path, node_id, pairs>>

\* A call of find_current_node(data, mapping) on its own.
FindCurrentNode ==
    /\ pc = "parse"
    /\ current_node_id' = find_current_node(data, mapping)
    /\ pc' = "current_found"
    /\ UNCHANGED <<aux_vars, mapping, data, root_id, nodes, mainline_path, node_id, pairs>>

\* process_nodes and create_pairs, as _parse_conversation runs them.
ParseSteps ==
    \/ ExtractNodes
    \/ MainlineEnter
    \/ MainlineWalkStep
    \/ MainlineReturn
    \/ DeriveNodes
    \/ CreatePairs

Next ==
    \/ ParseSteps
    \/ CreatePairsAgain

Spec == Init /\ [][Next]_vars

NextParse ==
    \/ ParseConversation
    \/ FindCurrentNode
    \/ ParseSteps

SpecParse == InitParse /\ [][NextParse]_vars

\* The message texts of the conversations InitSem draws: empty, whitespace
\* only, and a proper text.
SemTexts == {"", " ", "hi"}

\* The parent references of the conversations InitSem draws: each node's
\* parent is null, the node itself, or an earlier key of the mapping.
SemParents ==
    {parent \in [Ids -> {None} \cup Ids] :
        \A n \in Ids : parent[n] \in Ids => parent[n] <= n}

\* A parsed export about to be processed and then enriched: prompts at the odd
\* keys, responses at the even ones.
InitSem ==
    /\ \E parent \in SemParents, text \in [Ids -> SemTexts] :
           mapping = [n \in Ids |->
                         [parent |-> parent[n],
                          children |-> ChildrenOf(parent, n),
                          role |-> IF n % 2 = 1 THEN "user" ELSE "assistant",
                          text |-> text[n]]]
    /\ data = <<>>
    /\ root_id = None
    /\ current_node_id \in {None} \cup Ids
    /\ nodes = <<>>
    /\ mainline_path = <<>>
    /\ node_id = None
    /\ pairs = <<>>
    /\ AuxIdle
    /\ pc = "process_nodes"

\* The number of texts of a list that go to the provider.
ValidCount(texts) == Len(SelectSeq(texts, LAMBDA t : ~StripsToEmpty(t)))

\* process_conversation: self._process_nodes(conversation['nodes'])
EmbedNodes ==
    /\ pc = "done"
    /\ \E response \in ProviderResponses(ValidCount(NodeTexts(nodes))) :
           nodes' = CartaEmbedder_process_nodes(nodes, response)
    /\ pc' = "process_pairs"
    /\ UNCHANGED <<aux_vars, mapping, data, root_id, current_node_id, mainline_path, node_id, pairs>>

\* process_conversation: self._process_pairs(conversation)
EmbedPairs ==
    /\ pc = "process_pairs"
    /\ \E response \in PairProviderResponses(ValidCount(PairTexts(pairs, nodes))) :
           pairs' = CartaEmbedder_process_pairs(pairs, nodes, response)
    /\ pc' = "semantic_ancestry"
    /\ UNCHANGED <<aux_vars, mapping, data, root_id, current_node_id, nodes, mainline_path, node_id>>

\* process_conversation: self._calculate_semantic_ancestry(conversation)
DriverAncestry ==
    /\ pc = "semantic_ancestry"
    /\ nodes' = CartaEmbedder_calculate_semantic_ancestry(nodes)
    /\ pc' = "enriched"
    /\ UNCHANGED <<aux_vars, mapping, data, root_id, current_node_id, mainline_path, node_id, pairs>>

\* semantic_analyzer.calculate_semantic_ancestry(conversation, embedder) on a
\* conversation whose nodes carry their embeddings.
AnalyzerAncestry ==
    /\ pc \in {"semantic_ancestry", "enriched"}
    /\ nodes' = calculate_semantic_ancestry(nodes)
    /\ pc' = "analyzed"
    /\ UNCHANGED <<aux_vars, mapping, data, root_id, current_node_id, mainline_path, node_id, pairs>>

\* The enrichment stages that follow the parse.
EnrichSteps ==
    \/ EmbedNodes
    \/ EmbedPairs
    \/ DriverAncestry
    \/ AnalyzerAncestry

NextSem ==
    \/ ParseSteps
    \/ EnrichSteps

SpecSem == InitSem /\ [][NextSem]_vars

\* The parent references of the conversations InitPasses draws: each node's
\* parent is null or an earlier key of the mapping.
PassParents ==
    {parent \in [Ids -> {None} \cup Ids] :
        \A n \in Ids : parent[n] \in Ids => parent[n] < n}

\* A parsed export about to be processed, embedded and handed to the three
\* semantic passes: nodes without text and nodes with a proper text.
InitPasses ==
    /\ \E parent \in PassParents, text \in [Ids -> {"", "hi"}] :
           mapping = [n \in Ids |->
                         [parent |-> parent[n],
                          children |-> ChildrenOf(parent, n),
                          role |-> IF n % 2 = 1 THEN "user" ELSE "assistant",
                          text |-> text[n]]]
    /\ data = <<>>
    /\ root_id = None
    /\ current_node_id \in {None} \cup Ids
    /\ nodes = <<>>
    /\ mainline_path = <<>>
    /\ node_id = None
    /\ pairs = <<>>
    /\ AuxIdle
    /\ pc = "process_nodes"

\* The body of one pass's loop for node n, run on the nodes as they are:
\* the loop of a pass with a parent-reading gate on the branch pass.
PassOnNode_GatedOnParentDistance(pass, ns, n) ==
    IF pass = "parent_child" THEN calculate_parent_child_distances(ns)[n]
    ELSE IF pass = "sibling" THEN calculate_sibling_distances(ns)[n]
    ELSE IF ns[n].derived.semantic_distance_from_parent # None
         THEN calculate_branch_mainline_distances(ns)[n]
         ELSE ns[n]

\* The body of one pass's loop for node n, run on the nodes as they are.
PassOnNode(pass, ns, n) ==
    IF pass = "parent_child" THEN calculate_parent_child_distances(ns)[n]
    ELSE IF pass = "sibling" THEN calculate_sibling_distances(ns)[n]
    ELSE calculate_branch_mainline_distances(ns)[n]

\* The three passes are started side by side on the embedded nodes.
StartPasses ==
    /\ pc = "semantic_ancestry"
    /\ pc' = "passes"
    /\ UNCHANGED <<aux_vars, mapping, data, root_id, current_node_id, nodes, mainline_path,
                   node_id, pairs>>

\* One pass handles the next node of its loop (dict order), whatever the
\* other passes have done so far.
PassStep ==
    /\ pc = "passes"
    /\ \E pass \in PassNames :
           /\ pass_pos[pass] < NumNodes
           /\ nodes' = [nodes EXCEPT ![KeyOrder[pass_pos[pass] + 1]] =
                            PassOnNode(pass, nodes, KeyOrder[pass_pos[pass] + 1])]
           /\ pass_pos' = [pass_pos EXCEPT ![pass] = @ + 1]
    /\ UNCHANGED <<mapping, data, root_id, current_node_id, mainline_path, node_id, pairs, pc,
                   aux_but_pass>>

NextPasses ==
    \/ ParseSteps
    \/ EmbedNodes
    \/ EmbedPairs
    \/ StartPasses
    \/ PassStep

SpecPasses == InitPasses /\ [][NextPasses]_vars

\* The longest text list InitBatch draws.
MaxTexts == 3

\* The largest batch_size InitBatch draws.
MaxBatchSize == 2

\* The texts InitBatch draws: empty, whitespace only, and two proper texts.
BatchTexts == {"", " ", "a", "b"}

\* The vector the provider computes for a text.
ProviderVector(text) == IF text = "a" THEN <<1, 0>> ELSE <<0, 1>>

\* response.data for a batch: one entry per input with its position, in the
\* order of the batch or in the opposite order.
ResponseData(batch, reversed) ==
    [k \in 1..Len(batch) |->
        LET j == IF reversed THEN Len(batch) + 1 - k ELSE k
        IN  [index |-> j - 1, embedding |-> ProviderVector(batch[j])]]

\* The embeddings of response.data in the order the provider sent them.
EmbeddingsByIndex_AsReturned(response_data) ==
    [k \in 1..Len(response_data) |-> response_data[k].embedding]

\* [data.embedding for data in sorted(response.data, key=lambda x: x.index)]
EmbeddingsByIndex(response_data) ==
    [k \in 1..Len(response_data) |->
        (CHOOSE d \in {response_data[j] : j \in 1..Len(response_data)} :
             d.index = k - 1).embedding]

\* The except branch that also replaces what earlier batches produced.
ExtendWithZeros_DiscardEarlier(embeddings, batch) ==
    [k \in 1..(Len(embeddings) + Len(batch)) |-> ZeroVector]

\* The except branch: all_embeddings.extend(zero_vectors), one per text of
\* the batch.
ExtendWithZeros(embeddings, batch) ==
    embeddings \o [k \in 1..Len(batch) |-> ZeroVector]

\* valid_texts of the invocation under way.
ValidTexts == SelectSeq(emb_texts, LAMBDA t : ~StripsToEmpty(t))

\* valid_texts[i:i+batch_size]
BatchAt(start) ==
    SubSeq(ValidTexts, start + 1,
           IF start + emb_batch_size < Len(ValidTexts)
           THEN start + emb_batch_size ELSE Len(ValidTexts))

\* A call get_embeddings_batch(texts, batch_size).
InitBatch ==
    /\ ParseIdle
    /\ PassesIdle
    /\ ContentIdle
    /\ StoreIdle
    /\ PipelineIdle
    /\ batch_state \in
           {[texts |-> texts, batch_size |-> batch_size, i |-> 0, all_embeddings |-> <<>>,
             log |-> <<>>, result |-> <<>>] :
                texts \in UNION {[1..k -> BatchTexts] : k \in 0..MaxTexts},
                batch_size \in 1..MaxBatchSize}
    /\ pc = "get_embeddings_batch"

\* `if not texts: return []`, else the loop is entered.
BatchEnter ==
    /\ pc = "get_embeddings_batch"
    /\ pc' = IF emb_texts = <<>> THEN "batch_returned" ELSE "batch_loop"
    /\ UNCHANGED <<parse_vars, aux_vars>>

\* One iteration of the batch loop: the provider call succeeds (and a sleep
\* follows unless this was the last batch) or raises.
BatchCall ==
    /\ pc = "batch_loop"
    /\ emb_i < Len(ValidTexts)
    /\ \/ \E reversed \in BOOLEAN :
              batch_state' =
                  [batch_state EXCEPT
                       !.all_embeddings =
                           emb_all \o EmbeddingsByIndex(ResponseData(BatchAt(emb_i), reversed)),
                       !.log = IF emb_i + emb_batch_size < Len(ValidTexts)
                               THEN emb_log \o <<"call", "sleep">>
                               ELSE emb_log \o <<"call">>,
                       !.i = emb_i + emb_batch_size]
       \/ batch_state' =
              [batch_state EXCEPT
                   !.all_embeddings = ExtendWithZeros(emb_all, BatchAt(emb_i)),
                   !.log = emb_log \o <<"call_failed">>,
                   !.i = emb_i + emb_batch_size]
    /\ UNCHANGED <<parse_vars, aux_but_batch, pc>>

\* After the loop: the zero vectors of the empty texts are reinserted and the
\* list is returned.
BatchReturn ==
    /\ pc = "batch_loop"
    /\ emb_i >= Len(ValidTexts)
    /\ batch_state' = [batch_state EXCEPT !.result = Reinsert(emb_texts, emb_all, 1, 1)]
    /\ pc' = "batch_returned"
    /\ UNCHANGED <<parse_vars, aux_but_batch>>

NextBatch ==
    \/ BatchEnter
    \/ BatchCall
    \/ BatchReturn

SpecBatch == InitBatch /\ [][NextBatch]_vars

\* ---- content extraction (parser/node_processor.py, embedder/embedder.py) ----

\* The longest `parts` list of a payload.
MaxParts == 2

\* One element of `parts`: a plain string (kind "str"), or a dict (kind
\* "dict") that has or lacks the key 'text' (an image part lacks it).
PartValues ==
    {[kind |-> "str", has_text |-> FALSE, text |-> t] : t \in {"a", "b"}}
        \cup {[kind |-> "dict", has_text |-> TRUE, text |-> "a"],
              [kind |-> "dict", has_text |-> FALSE, text |-> ""]}

PartLists == UNION {[1..k -> PartValues] : k \in 0..MaxParts}

\* A message's `content`: None, a string, or a dict with some of the keys
\* 'content_type', 'parts' and 'text'; a key that is absent holds a filler.
Payloads ==
    {[kind |-> "none", str |-> "", keys |-> {}, content_type |-> "", parts |-> <<>>, text |-> ""]}
        \cup {[kind |-> "str", str |-> t, keys |-> {}, content_type |-> "", parts |-> <<>>,
               text |-> ""] : t \in {"", "a"}}
        \cup {[kind |-> "dict", str |-> "", keys |-> ks,
               content_type |-> IF "content_type" \in ks THEN ct ELSE "",
               parts |-> IF "parts" \in ks THEN ps ELSE <<>>,
               text |-> IF "text" \in ks THEN "t" ELSE ""] :
                  ks \in SUBSET {"content_type", "parts", "text"},
                  ct \in {"text", "code"},
                  ps \in PartLists}

\* Python's truth test of a payload: None, "" and {} are falsy.
PayloadTruthy(content) ==
    CASE content.kind = "none" -> FALSE
      [] content.kind = "str" -> content.str # ""
      [] OTHER -> content.keys # {}

\* The loop over content['parts']: `text += part` for a string,
\* `text += part['text']` for a dict that has 'text', nothing otherwise.
RECURSIVE ConcatParts(_, _)
ConcatParts(parts, text) ==
    IF parts = <<>> THEN text
    ELSE LET part == Head(parts) IN
         IF part.kind = "str" \/ part.has_text
             THEN ConcatParts(Tail(parts), text \o part.text)
             ELSE ConcatParts(Tail(parts), text)

\* _extract_content: the pair (text, content_type).
extract_content(content) ==
    IF ~PayloadTruthy(content) THEN [text |-> "", content_type |-> "text"]
    ELSE LET content_type == IF content.kind = "dict" /\ "content_type" \in content.keys
                                 THEN content.content_type
                                 ELSE "text"
             text == CASE content.kind = "dict" /\ "parts" \in content.keys ->
                              ConcatParts(content.parts, "")
                        [] content.kind = "str" -> content.str
                        [] content.kind = "dict" /\ "text" \in content.keys -> content.text
                        [] OTHER -> ""
         IN [text |-> text, content_type |-> content_type]

\* The node extract_node_data builds around an extracted text.
ParsedNodeWithText(text) ==
    [id |-> 1, parent_id |-> None, children_ids |-> <<>>,
     message |-> [author |-> [role |-> "user"], content |-> [text |-> text]]]

InitContent ==
    /\ ParseIdle
    /\ PassesIdle
    /\ BatchIdle
    /\ StoreIdle
    /\ PipelineIdle
    /\ content_state \in
           {[content |-> payload, text |-> "", content_type |-> "", provider_text |-> ""] :
                payload \in Payloads}
    /\ pc = "extract_node_data"

\* extract_node_data calls _extract_content on the message's content.
ExtractContent ==
    /\ pc = "extract_node_data"
    /\ content_state' = [content_state EXCEPT
                             !.text = extract_content(ct_content).text,
                             !.content_type = extract_content(ct_content).content_type]
    /\ pc' = "node_extracted"
    /\ UNCHANGED <<parse_vars, aux_but_content>>

\* process_nodes of the embedder asks _extract_node_text for the parsed
\* node's text; the parsed node's content always has the key 'text'.
ExtractNodeText ==
    /\ pc = "node_extracted"
    /\ content_state' = [content_state EXCEPT
                             !.provider_text = extract_node_text(ParsedNodeWithText(ct_text))]
    /\ pc' = "text_extracted"
    /\ UNCHANGED <<parse_vars, aux_but_content>>

NextContent ==
    \/ ExtractContent
    \/ ExtractNodeText

SpecContent == InitContent /\ [][NextContent]_vars

\* ---- the store (db/client.py) ----

\* dict.get(key, default)
GetOr(d, key, default) == IF key \in DOMAIN d THEN d[key] ELSE default

\* The empty dict `{}` a missing 'derived' is read as.
EmptyDict == <<>>

\* The id of the conversation being stored, and its title.
ConversationId == "conv"

\* The conversation dict _parse_conversation returns, as store_conversation
\* receives it.
ConversationData ==
    [conversation |-> [id |-> ConversationId, title |-> "new",
                       root_id |-> root_id, current_node |-> current_node_id],
     nodes |-> nodes,
     pairs |-> pairs]

\* The row insert_conversation writes (the columns the model keeps).
ConversationRecord(conversation_data) ==
    LET conversation == GetOr(conversation_data, "conversation", EmptyDict)
    IN  [id |-> Get(conversation, "id"),
         title |-> GetOr(conversation, "title", "Untitled Conversation"),
         current_node |-> Get(conversation, "current_node"),
         root_id |-> Get(conversation, "root_id")]

\* The row insert_nodes builds for one node (the columns the model keeps).
\* path_from_root is stored as the JSON text of the list, which is
\* modelled as the list.
NodeRecord(conversation_id, n, node) ==
    LET derived == GetOr(node, "derived", EmptyDict)
    IN  [id |-> n,
         conversation_id |-> conversation_id,
         parent_id |-> Get(node, "parent_id"),
         role |-> GetOr(node, "role", "unknown"),
         content |-> GetOr(node, "content", ""),
         content_type |-> GetOr(node, "content_type", "text"),
         is_mainline |-> GetOr(derived, "is_mainline", FALSE),
         branch_depth |-> GetOr(derived, "branch_depth", 0),
         path_from_root |-> GetOr(derived, "path_from_root", <<>>),
         turn_number |-> GetOr(derived, "turn_number", 0)]

\* The row insert_pairs builds for one pair (the columns the model keeps;
\* the row's own id is a fresh uuid and is left out).
PairRecord(conversation_id, pair) ==
    LET derived == GetOr(pair, "derived", EmptyDict)
    IN  [conversation_id |-> conversation_id,
         prompt_id |-> Get(pair, "prompt_id"),
         response_id |-> Get(pair, "response_id"),
         is_mainline |-> GetOr(derived, "is_mainline", FALSE),
         is_alternate |-> GetOr(derived, "is_alternate", FALSE),
         branch_depth |-> GetOr(derived, "branch_depth", 0),
         path_from_root |-> GetOr(derived, "path_from_root", <<>>)]

\* INSERT ... ON CONFLICT (id) DO UPDATE SET title, current_node, ... on the
\* conversations table.
UpsertConversations(old, new) ==
    {r \in old : \A w \in new : w.id # r.id}
        \cup {IF \E r \in old : r.id = w.id
                  THEN LET r == CHOOSE r \in old : r.id = w.id
                       IN  [r EXCEPT !.title = w.title, !.current_node = w.current_node]
                  ELSE w : w \in new}

\* INSERT ... ON CONFLICT (id) DO UPDATE SET content, ... on the nodes table.
UpsertNodes(old, new) ==
    {r \in old : \A w \in new : w.id # r.id}
        \cup {IF \E r \in old : r.id = w.id
                  THEN LET r == CHOOSE r \in old : r.id = w.id
                       IN  [r EXCEPT !.content = w.content]
                  ELSE w : w \in new}

\* INSERT ... ON CONFLICT (prompt_id, response_id) DO UPDATE SET embedding,
\* ... on the pairs table: none of the columns kept here is updated.
UpsertPairs(old, new) ==
    old \cup {w \in new : \A r \in old :
                 r.prompt_id # w.prompt_id \/ r.response_id # w.response_id}

\* The durable tables after the transaction's writes are committed.
Committed(committed, pending) ==
    [conversations |-> UpsertConversations(committed.conversations, pending.conversations),
     nodes |-> UpsertNodes(committed.nodes, pending.nodes),
     pairs |-> UpsertPairs(committed.pairs, pending.pairs)]

\* A rollback that leaves the writes made so far in the tables.
RolledBack_KeepsWrites(committed, pending) == Committed(committed, pending)

\* The durable tables after conn.rollback(): the transaction's writes are
\* discarded.
RolledBack(committed, pending) == committed

\* The database before the call: empty, or holding an earlier header of
\* the same conversation.
InitialTables ==
    {EmptyTables,
     [EmptyTables EXCEPT !.conversations =
          {[id |-> ConversationId, title |-> "old", current_node |-> None, root_id |-> None]}]}

\* An export whose mapping is a forest, parsed and then stored.
InitStore ==
    /\ \E parent \in PassParents, role \in [Ids -> ParseRoles] :
           mapping = [n \in Ids |->
                         [parent |-> parent[n],
                          children |-> ChildrenOf(parent, n),
                          role |-> role[n],
                          text |-> "hi"]]
    /\ data \in UNION {[K -> {None} \cup Ids] : K \in SUBSET {"current_node"}}
    /\ root_id = None
    /\ current_node_id = None
    /\ nodes = <<>>
    /\ mainline_path = <<>>
    /\ node_id = None
    /\ pairs = <<>>
    /\ PassesIdle
    /\ BatchIdle
    /\ ContentIdle
    /\ PipelineIdle
    /\ store_state \in
           {[committed |-> tables, pending |-> EmptyTables, failed_at |-> "none"] :
                tables \in InitialTables}
    /\ pc = "parse"

\* store_conversation: `with self.get_connection() as conn:`; connecting
\* may raise, and then nothing was written.
StoreEnter ==
    /\ pc = "done"
    /\ \/ /\ pc' = "insert_conversation"
          /\ UNCHANGED store_state
       \/ /\ pc' = "store_raised"
          /\ store_state' = [store_state EXCEPT !.failed_at = "connect"]
    /\ UNCHANGED <<parse_vars, aux_but_store>>

\* conversation_id = self.insert_conversation(conversation_data, conn)
InsertConversation ==
    /\ pc = "insert_conversation"
    /\ store_state' = [store_state EXCEPT
                           !.pending.conversations = {ConversationRecord(ConversationData)}]
    /\ pc' = "insert_nodes"
    /\ UNCHANGED <<parse_vars, aux_but_store>>

\* if nodes_data: self.insert_nodes(conversation_id, nodes_data, conn)
InsertNodes ==
    /\ pc = "insert_nodes"
    /\ LET nodes_data == GetOr(ConversationData, "nodes", EmptyDict)
       IN  store_state' = [store_state EXCEPT
                               !.pending.nodes = {NodeRecord(ConversationId, n, nodes_data[n]) :
                                                      n \in DOMAIN nodes_data}]
    /\ pc' = "insert_pairs"
    /\ UNCHANGED <<parse_vars, aux_but_store>>

\* if pairs_data: self.insert_pairs(conversation_id, pairs_data, conn)
InsertPairs ==
    /\ pc = "insert_pairs"
    /\ LET pairs_data == GetOr(ConversationData, "pairs", <<>>)
       IN  store_state' = [store_state EXCEPT
                               !.pending.pairs = {PairRecord(ConversationId, pairs_data[i]) :
                                                      i \in DOMAIN pairs_data}]
    /\ pc' = "commit"
    /\ UNCHANGED <<parse_vars, aux_but_store>>

\* conn.commit(); return conversation_id
Commit ==
    /\ pc = "commit"
    /\ store_state' = [store_state EXCEPT
                           !.committed = Committed(db_committed, db_pending),
                           !.pending = EmptyTables]
    /\ pc' = "stored"
    /\ UNCHANGED <<parse_vars, aux_but_store>>

\* A statement of the transaction (or the commit) raises: `except Exception:
\* conn.rollback(); raise`, then get_connection rolls back again, re-raises
\* and closes.  insert_nodes and insert_pairs are only called, and so can
\* only raise, when there is something to insert.
StoreFail ==
    /\ pc \in {"insert_conversation", "insert_nodes", "insert_pairs", "commit"}
    /\ pc = "insert_nodes" => nodes # <<>>
    /\ pc = "insert_pairs" => pairs # <<>>
    /\ store_state' = [committed |-> RolledBack(db_committed, db_pending),
                       pending |-> EmptyTables,
                       failed_at |-> pc]
    /\ pc' = "store_raised"
    /\ UNCHANGED <<parse_vars, aux_but_store>>

StoreSteps ==
    \/ StoreEnter
    \/ InsertConversation
    \/ InsertNodes
    \/ InsertPairs
    \/ Commit
    \/ StoreFail

NextStore ==
    \/ ParseConversation
    \/ ParseSteps
    \/ StoreSteps

SpecStore == InitStore /\ [][NextStore]_vars

\* ---- the pipeline (parser/parser.py, pipeline.py) ----

\* The most files of one process_files call, and the most conversations of
\* one export file.
MaxFiles == 2

MaxConversations == 2

RECURSIVE MainlineWalk(_, _, _)
\* The while loop of determine_mainline_path, run to its end.
MainlineWalk(ns, path, id) ==
    IF ~Truthy(id) THEN path
    ELSE LET parent_id == Get(ns[id], "parent_id")
         IN  IF parent_id = None \/ parent_id \notin DOMAIN ns
                 THEN Append(path, id)
                 ELSE MainlineWalk(ns, Append(path, id), parent_id)

\* determine_mainline_path(nodes, current_node_id)
determine_mainline_path(ns, current) ==
    IF current = None \/ current \notin DOMAIN ns THEN <<>>
    ELSE Reverse(MainlineWalk(ns, <<>>, current))

\* process_nodes(mapping, current_node_id)
process_nodes(mp, current) ==
    LET extracted == [n \in DOMAIN mp |-> extract_node_data(n, mp[n])]
        ml == determine_mainline_path(extracted, current)
    IN  [n \in DOMAIN extracted |->
            extracted[n] @@ [derived |-> DerivedOf(extracted, n, ml)]]

\* _parse_conversation: {} for a missing or empty mapping and for a mapping
\* without a root, the parsed conversation otherwise.
parse_conversation(d) ==
    LET mp == GetOr(d, "mapping", EmptyDict)
    IN  IF mp = EmptyDict THEN EmptyDict
        ELSE LET root_nodes == find_root_nodes(mp)
             IN  IF root_nodes = <<>> THEN EmptyDict
                 ELSE LET current == find_current_node(d, mp)
                          ns == process_nodes(mp, current)
                      IN  [conversation |-> [id |-> Get(d, "id"),
                                             root_id |-> root_nodes[1],
                                             current_node |-> current],
                           nodes |-> ns,
                           pairs |-> create_pairs(ns)]

RECURSIVE ParseLoop_StopAtMalformed(_, _)
\* The loop of parse_file ending at the first conversation that does not
\* parse.
ParseLoop_StopAtMalformed(conversations, results) ==
    IF conversations = <<>> THEN results
    ELSE LET parsed_conversation == parse_conversation(Head(conversations))
         IN  IF parsed_conversation # EmptyDict
                 THEN ParseLoop_StopAtMalformed(Tail(conversations),
                                                Append(results, parsed_conversation))
                 ELSE results

RECURSIVE ParseLoop(_, _)
\* The loop of parse_file: a truthy parse result is appended, an empty one
\* is skipped.
ParseLoop(conversations, results) ==
    IF conversations = <<>> THEN results
    ELSE LET parsed_conversation == parse_conversation(Head(conversations))
         IN  IF parsed_conversation # EmptyDict
                 THEN ParseLoop(Tail(conversations), Append(results, parsed_conversation))
                 ELSE ParseLoop(Tail(conversations), results)

\* parse_file on a file that exists: [] when the JSON does not load.
parse_file(file) ==
    IF file.kind = "unreadable" THEN <<>>
    ELSE ParseLoop(file.conversations, <<>>)

\* A mapping in which every node has a parent: the first key is its own
\* parent and the parent of the others.
RootlessMapping ==
    [n \in Ids |-> [parent |-> KeyOrder[1],
                    children |-> IF n = KeyOrder[1] THEN KeyOrder ELSE <<>>,
                    role |-> IF n % 2 = 1 THEN "user" ELSE "assistant",
                    text |-> "hi"]]

\* A mapping that is one chain from the first key to the last.
ChainMapping ==
    [n \in Ids |-> [parent |-> IF n = 1 THEN None ELSE n - 1,
                    children |-> IF n = NumNodes THEN <<>> ELSE <<n + 1>>,
                    role |-> IF n % 2 = 1 THEN "user" ELSE "assistant",
                    text |-> "hi"]]

\* The conversation with id i of an export: without 'mapping', with an
\* empty one, with a rootless one, or with a chain ending at current_node.
ConversationSamples(i) ==
    {[id |-> i],
     [id |-> i, mapping |-> EmptyDict],
     [id |-> i, mapping |-> RootlessMapping],
     [id |-> i, mapping |-> ChainMapping, current_node |-> NumNodes]}

\* What a path given to process_files can hold: nothing (no such file),
\* text that is not JSON, or an array of conversations.
Files ==
    {[kind |-> k, conversations |-> <<>>] : k \in {"missing", "unreadable"}}
        \cup {[kind |-> "json", conversations |-> cs] :
                 cs \in UNION {{c \in [1..k -> UNION {ConversationSamples(i) : i \in 1..k}] :
                                   \A i \in 1..k : c[i].id = i} : k \in 0..MaxConversations}}

\* The events that end a file's processing early.
FileFailures == {"not_found", "embed_failed"}

\* The log entries that are kept when the next file starts.
EarlierFailures(log) == SelectSeq(log, LAMBDA e : e.event \in FileFailures)

InitFiles ==
    /\ ParseIdle
    /\ PassesIdle
    /\ BatchIdle
    /\ ContentIdle
    /\ StoreIdle
    /\ pipeline_state \in
           {[file_paths |-> [i \in 1..k |-> i], data |-> <<>>, file |-> 0, parsed |-> <<>>,
             store_i |-> 0, conversation_ids |-> <<>>, results |-> <<>>, log |-> <<>>] :
                k \in 1..MaxFiles}
    /\ pc = "process_files"

\* process_files takes the next path and calls process_file, which raises
\* FileNotFoundError (caught: results[file_path] = []), returns [] when
\* parse_file returns nothing, or goes on to the embedding loop.
ProcessFile ==
    /\ pc = "process_files"
    /\ pl_file < Len(pl_files)
    /\ \E file \in Files :
          IF file.kind = "missing"
          THEN /\ pipeline_state' =
                      [pipeline_state EXCEPT
                           !.data = file,
                           !.log = Append(EarlierFailures(pl_log),
                                          [file |-> pl_file + 1, event |-> "not_found",
                                           id |-> None]),
                           !.results = Append(pl_results, <<>>),
                           !.file = pl_file + 1,
                           !.parsed = <<>>,
                           !.store_i = 0,
                           !.conversation_ids = <<>>]
               /\ pc' = "process_files"
          ELSE IF parse_file(file) = <<>>
          THEN /\ pipeline_state' =
                      [pipeline_state EXCEPT
                           !.data = file,
                           !.log = EarlierFailures(pl_log),
                           !.results = Append(pl_results, <<>>),
                           !.file = pl_file + 1,
                           !.parsed = <<>>,
                           !.store_i = 0,
                           !.conversation_ids = <<>>]
               /\ pc' = "process_files"
          ELSE /\ pipeline_state' =
                      [pipeline_state EXCEPT
                           !.data = file,
                           !.log = EarlierFailures(pl_log),
                           !.parsed = parse_file(file),
                           !.store_i = 0,
                           !.conversation_ids = <<>>]
               /\ pc' = "embed"
    /\ UNCHANGED <<parse_vars, aux_but_pipeline>>

\* process_file's embedding loop, which is not inside a try: an exception
\* of process_conversation ends process_file and is caught by process_files.
EmbedConversations ==
    /\ pc = "embed"
    /\ \/ /\ pc' = "store"
          /\ UNCHANGED pipeline_state
       \/ /\ pipeline_state' =
                 [pipeline_state EXCEPT
                      !.log = Append(pl_log, [file |-> pl_file + 1, event |-> "embed_failed",
                                              id |-> None]),
                      !.results = Append(pl_results, <<>>),
                      !.file = pl_file + 1]
          /\ pc' = "process_files"
    /\ UNCHANGED <<parse_vars, aux_but_pipeline>>

\* One iteration of process_file's store loop: the id is appended when
\* store_conversation returns, the exception is logged when it raises.
StoreConversation ==
    /\ pc = "store"
    /\ pl_store_i < Len(pl_parsed)
    /\ LET conversation == pl_parsed[pl_store_i + 1]
           conversation_id == conversation.conversation.id
       IN  \/ pipeline_state' =
                  [pipeline_state EXCEPT
                       !.conversation_ids = Append(pl_ids, conversation_id),
                       !.log = Append(pl_log, [file |-> pl_file + 1, event |-> "store_ok",
                                               id |-> conversation_id]),
                       !.store_i = pl_store_i + 1]
           \/ pipeline_state' =
                  [pipeline_state EXCEPT
                       !.log = Append(pl_log, [file |-> pl_file + 1, event |-> "store_failed",
                                               id |-> conversation_id]),
                       !.store_i = pl_store_i + 1]
    /\ UNCHANGED <<parse_vars, aux_but_pipeline, pc>>

\* process_file returns conversation_ids; results[file_path] = conversation_ids
FileReturn ==
    /\ pc = "store"
    /\ pl_store_i = Len(pl_parsed)
    /\ pipeline_state' = [pipeline_state EXCEPT
                              !.results = Append(pl_results, pl_ids),
                              !.file = pl_file + 1]
    /\ pc' = "process_files"
    /\ UNCHANGED <<parse_vars, aux_but_pipeline>>

\* process_files: return results
FilesReturn ==
    /\ pc = "process_files"
    /\ pl_file = Len(pl_files)
    /\ pc' = "files_returned"
    /\ UNCHANGED <<parse_vars, aux_vars>>

NextFiles ==
    \/ ProcessFile
    \/ EmbedConversations
    \/ StoreConversation
    \/ FileReturn
    \/ FilesReturn

SpecFiles == InitFiles /\ [][NextFiles]_vars

---------------------------------------------------------------------------
(* Notions the properties are stated in, defined on the export itself *)

\* No id occurs twice in s.
NoDup(s) == \A i, j \in 1..Len(s) : i # j => s[i] # s[j]

\* S with the parents (that are keys of the mapping) of its members.
Up(S) == S \cup {mapping[m].parent : m \in {k \in S : mapping[k].parent \in Ids}}

RECURSIVE UpClosure(_)
UpClosure(S) == IF Up(S) = S THEN S ELSE UpClosure(Up(S))

\* n and every node reached from n by following parent references.
Chain(n) == UpClosure({n})

\* n is reached again by following parent references from n.
OnCycle(n) == mapping[n].parent \in Ids /\ n \in Chain(mapping[n].parent)

\* The nodes of the cycle that n's ancestor chain runs into.
CycleOf(n) == {m \in Chain(n) : OnCycle(m)}

\* n's ancestor chain is cyclic: n lies on a cycle or leads into one.
CyclicChain(n) == CycleOf(n) # {}

\* A well-formed export with its current node: the parent relation is
\* acyclic, every non-null parent is a key, and the current node is a key.
WellFormed ==
    /\ \A n \in Ids : ~OnCycle(n) /\ mapping[n].parent \in Ids \cup {None}
    /\ current_node_id \in Ids

\* determine_mainline_path has returned.
MainlineKnown == pc \in {"derive", "create_pairs", "done", "done_again"}

\* process_nodes has returned.
Processed == pc \in {"create_pairs", "done", "done_again"}

\* The assistant-role entries of node p's children list.
AssistantChildren(p) ==
    {c \in SetOf(mapping[p].children) : c \in Ids /\ mapping[c].role = "assistant"}

\* The indices of the pairs with prompt u and response c.
PairsFor(u, c) ==
    {i \in 1..Len(pairs) : pairs[i].prompt_id = u /\ pairs[i].response_id = c}

---------------------------------------------------------------------------
(* Properties *)

\* C1: for a well-formed export (acyclic parents, no dangling parent, current
\* node present) the walk of determine_mainline_path stops within the node
\* count and returns a path that starts at a root, ends at the current node,
\* and whose consecutive elements are parent and child.
C1_MainlineRootToCurrent ==
    WellFormed =>
        /\ pc = "mainline_walk" => Len(mainline_path) < NumNodes
        /\ MainlineKnown =>
              /\ mainline_path # <<>>
              /\ mapping[mainline_path[1]].parent = None
              /\ mainline_path[Len(mainline_path)] = current_node_id
              /\ \A i \in 1..(Len(mainline_path) - 1) :
                     nodes[mainline_path[i + 1]].parent_id = mainline_path[i]

\* C1 witness: a well-formed export whose mainline has a root, an inner node
\* and the current node.
C1_Witness ==
    WellFormed /\ pc = "done" /\ Len(mainline_path) >= 3

\* C2 as claimed: the path_from_root of a node whose ancestor chain is cyclic
\* (on the cycle or leading into it) has no repeated id and is no longer than
\* the number of distinct nodes in the cycle.
C2_PathWithinCycleSize ==
    Processed =>
        \A n \in Ids : CyclicChain(n) =>
            /\ NoDup(nodes[n].derived.path_from_root)
            /\ Len(nodes[n].derived.path_from_root) <= Cardinality(CycleOf(n))

\* C2 amended: the path_from_root of a node whose ancestor chain is cyclic has
\* no repeated id and is no longer than the number of distinct nodes on its
\* ancestor chain (the cycle's nodes plus those leading into it); for a node
\* on the cycle itself that is the number of distinct nodes in the cycle.
C2_PathWithinChainSize ==
    Processed =>
        \A n \in Ids : CyclicChain(n) =>
            /\ NoDup(nodes[n].derived.path_from_root)
            /\ Len(nodes[n].derived.path_from_root) <= Cardinality(Chain(n))
            /\ OnCycle(n) =>
                  Len(nodes[n].derived.path_from_root) <= Cardinality(CycleOf(n))

\* C2 witness: a node that leads into a cycle without lying on it, whose path
\* is longer than the cycle.
C2_Witness ==
    /\ Processed
    /\ \E n \in Ids :
           /\ CyclicChain(n) /\ ~OnCycle(n)
           /\ Len(nodes[n].derived.path_from_root) > Cardinality(CycleOf(n))

\* C3 as claimed: the upward walk of determine_mainline_path detects a repeated
\* node id and stops, so the ids it collects are distinct and no more than the
\* nodes of the mapping, also when the current node's parent chain is cyclic.
C3_MainlineWalkDetectsCycle ==
    /\ NoDup(mainline_path)
    /\ Len(mainline_path) <= NumNodes

\* C4: when the current node id is null or not a key of the node set, the
\* mainline path is empty and every node has is_mainline = false.
C4_NoCurrentNoMainline ==
    (MainlineKnown /\ (current_node_id = None \/ current_node_id \notin DOMAIN nodes)) =>
        /\ mainline_path = <<>>
        /\ Processed => \A n \in DOMAIN nodes : ~nodes[n].derived.is_mainline

\* C4 witness: process_nodes has returned for an unknown current node id.
C4_Witness ==
    Processed /\ current_node_id = Dangling /\ nodes # <<>>

\* C5: after process_nodes a node is flagged is_mainline exactly when its id
\* occurs in determine_mainline_path's result; the mainline nodes and the
\* others are disjoint and together are all nodes.
C5_MainlineFlagIffOnPath ==
    Processed =>
        LET main == {n \in DOMAIN nodes : nodes[n].derived.is_mainline}
            rest == {n \in DOMAIN nodes : ~nodes[n].derived.is_mainline}
        IN  /\ main = SetOf(mainline_path)
            /\ main \cap rest = {}
            /\ main \cup rest = Ids

\* C5 witness: a mainline of two nodes or more beside a non-mainline node.
C5_Witness ==
    /\ Processed
    /\ Len(mainline_path) >= 2
    /\ \E n \in Ids : ~nodes[n].derived.is_mainline

\* C6: after process_nodes, for every node of every mapping (dangling and
\* cyclic parent references included), len(path_from_root) = turn_number and
\* branch_depth = turn_number - 1.
C6_TurnNumberAndDepth ==
    Processed =>
        \A n \in DOMAIN nodes :
            /\ Len(nodes[n].derived.path_from_root) = nodes[n].derived.turn_number
            /\ nodes[n].derived.branch_depth = nodes[n].derived.turn_number - 1

\* C6 witness: a mapping with a dangling parent reference and a cycle, with a
\* node at turn 2.
C6_Witness ==
    /\ Processed
    /\ \E n, m \in Ids :
           /\ mapping[n].parent = Dangling
           /\ OnCycle(m)
           /\ nodes[m].derived.turn_number = 2

\* C7 as claimed: every assistant-role node whose parent is a user-role node
\* with more than one assistant-role child has generation_type regeneration.
C7_RegenerationClassified ==
    Processed =>
        \A n \in Ids :
            LET p == mapping[n].parent
            IN  (/\ mapping[n].role = "assistant"
                 /\ p \in Ids
                 /\ mapping[p].role = "user"
                 /\ Cardinality(AssistantChildren(p)) > 1)
                => nodes[n].derived.generation_type = "regeneration"

\* C8 as claimed: every root node has generation_type initial_prompt, and an
\* only assistant child of a user root has standard_response.
C8_RootIsInitialPrompt ==
    Processed =>
        \A n \in Ids :
            /\ mapping[n].parent = None =>
                   nodes[n].derived.generation_type = "initial_prompt"
            /\ (/\ mapping[n].role = "assistant"
                /\ mapping[n].parent \in Ids
                /\ mapping[mapping[n].parent].role = "user"
                /\ mapping[mapping[n].parent].parent = None
                /\ Cardinality(AssistantChildren(mapping[n].parent)) = 1)
               => nodes[n].derived.generation_type = "standard_response"

\* C9: create_pairs emits exactly one pair for each edge from a user-role node
\* to an assistant-role child and no other pair; a user node with k assistant
\* children yields k pairs, at most one of them mainline, the rest alternates.
C9_OnePairPerEdge ==
    pc = "done" =>
        /\ \A u, c \in Ids :
               Cardinality(PairsFor(u, c)) =
                   IF mapping[u].role = "user" /\ c \in AssistantChildren(u)
                   THEN 1 ELSE 0
        /\ \A i \in 1..Len(pairs) :
               pairs[i].prompt_id \in Ids /\ pairs[i].response_id \in Ids
        /\ \A u \in Ids : mapping[u].role = "user" =>
               LET mine == {i \in 1..Len(pairs) : pairs[i].prompt_id = u}
               IN  /\ Cardinality(mine) = Cardinality(AssistantChildren(u))
                   /\ Cardinality({i \in mine : pairs[i].is_mainline}) <= 1
                   /\ \A i \in mine : ~pairs[i].is_mainline => pairs[i].is_alternate

\* C9 witness: a user node with two assistant children, one pair mainline
\* and the other an alternate.
C9_Witness ==
    /\ pc = "done"
    /\ \E i, j \in 1..Len(pairs) :
           /\ i # j
           /\ pairs[i].prompt_id = pairs[j].prompt_id
           /\ pairs[i].is_mainline
           /\ pairs[j].is_alternate

\* C10: a pair's is_mainline is true exactly when its prompt node and its
\* response node are both mainline, and is_alternate is its negation.
C10_PairMainlineIsBoth ==
    pc = "done" =>
        \A i \in 1..Len(pairs) :
            /\ pairs[i].is_mainline =
                   (/\ nodes[pairs[i].prompt_id].derived.is_mainline
                    /\ nodes[pairs[i].response_id].derived.is_mainline)
            /\ pairs[i].is_alternate = ~pairs[i].is_mainline

\* C10 witness: a pair whose prompt is mainline and whose response is not,
\* beside a mainline pair.
C10_Witness ==
    /\ pc = "done"
    /\ \E i, j \in 1..Len(pairs) :
           /\ pairs[i].is_mainline
           /\ nodes[pairs[j].prompt_id].derived.is_mainline
           /\ ~nodes[pairs[j].response_id].derived.is_mainline
           /\ ~pairs[j].is_mainline

\* The length of the longest common positional prefix of p and q.
CommonPrefixLen(p, q) ==
    LET m == IF Len(p) < Len(q) THEN Len(p) ELSE Len(q)
    IN  CHOOSE k \in 0..m :
            /\ \A i \in 1..k : p[i] = q[i]
            /\ k = m \/ p[k + 1] # q[k + 1]

\* The last element of the longest common positional prefix, or None.
CommonPrefixLast(p, q) ==
    IF CommonPrefixLen(p, q) = 0 THEN None ELSE p[CommonPrefixLen(p, q)]

\* C11 as claimed: a pair's turn_number and branch_depth equal the response
\* node's derived turn_number and branch_depth, and its path_from_root equals
\* the prompt node's derived path_from_root.
C11_PairCopiesNodeFields ==
    pc = "done" =>
        \A i \in 1..Len(pairs) :
            /\ pairs[i].turn_number = nodes[pairs[i].response_id].derived.turn_number
            /\ pairs[i].branch_depth = nodes[pairs[i].response_id].derived.branch_depth
            /\ pairs[i].path_from_root = nodes[pairs[i].prompt_id].derived.path_from_root

\* C11 amended: a pair's turn_number is the response node's derived
\* turn_number halved (integer division by 2); its branch_depth equals the
\* response node's derived branch_depth and its path_from_root equals the
\* prompt node's derived path_from_root.
C11_PairTurnIsHalved ==
    pc = "done" =>
        \A i \in 1..Len(pairs) :
            /\ pairs[i].turn_number =
                   nodes[pairs[i].response_id].derived.turn_number \div 2
            /\ pairs[i].branch_depth = nodes[pairs[i].response_id].derived.branch_depth
            /\ pairs[i].path_from_root = nodes[pairs[i].prompt_id].derived.path_from_root

\* C11 witness: a pair whose response node is at turn 3 and whose own
\* turn_number is 1.
C11_Witness ==
    /\ pc = "done"
    /\ \E i \in 1..Len(pairs) :
           /\ nodes[pairs[i].response_id].derived.turn_number = 3
           /\ pairs[i].turn_number = 1
           /\ pairs[i].branch_depth = 2

C17_DivergencePointIsPrefixEnd ==
    Processed =>
        \A n \in Ids :
            LET d == nodes[n].derived
            IN  /\ d.is_mainline => d.mainline_divergence_point = None
                /\ ~d.is_mainline =>
                       /\ d.mainline_divergence_point =
                              CommonPrefixLast(d.path_from_root, mainline_path)
                       /\ (mainline_path = <<>>
                             \/ d.path_from_root[1] # mainline_path[1])
                          => d.mainline_divergence_point = None

\* C17 witness: a branch node that leaves the mainline below the root, beside
\* a mainline node.
C17_Witness ==
    /\ Processed
    /\ \E n, m \in Ids :
           /\ ~nodes[n].derived.is_mainline
           /\ nodes[n].derived.mainline_divergence_point # None
           /\ nodes[n].derived.mainline_divergence_point # nodes[n].derived.path_from_root[1]
           /\ nodes[m].derived.is_mainline

\* C18: siblings_count is the number of entries of the parent's children list
\* other than the node itself, and 0 for a root (and for a node whose parent
\* is not in the node set).
C18_SiblingsCount ==
    Processed =>
        \A n \in Ids :
            nodes[n].derived.siblings_count =
                IF mapping[n].parent \in Ids
                THEN Cardinality({i \in 1..Len(mapping[mapping[n].parent].children) :
                                     mapping[mapping[n].parent].children[i] # n})
                ELSE 0

\* C18 witness: a root beside two children of one parent.
C18_Witness ==
    /\ Processed
    /\ \E r, n \in Ids :
           /\ mapping[r].parent = None
           /\ Len(mapping[r].children) = 2
           /\ mapping[n].parent = r
           /\ nodes[n].derived.siblings_count = 1

\* The keys of the mapping that have no parent.
RootSet == {n \in Ids : mapping[n].parent = None}

\* C19: find_current_node returns the export's explicit current-node pointer
\* whenever the export has one, and otherwise the last root in mapping order,
\* or none when the mapping has no root.
C19_FindCurrentNode ==
    pc = "current_found" =>
        /\ "current_node" \in DOMAIN data => current_node_id = data["current_node"]
        /\ "current_node" \notin DOMAIN data =>
               /\ RootSet = {} => current_node_id = None
               /\ RootSet # {} =>
                      /\ current_node_id \in RootSet
                      /\ \A r \in RootSet : r <= current_node_id

\* C19 witness: no explicit pointer and two roots, the later one returned.
C19_Witness ==
    /\ pc = "current_found"
    /\ "current_node" \notin DOMAIN data
    /\ Cardinality(RootSet) = 2
    /\ current_node_id \in RootSet
    /\ \E r \in RootSet : r < current_node_id

\* The semantic derivation has run.
Enriched == pc \in {"enriched", "analyzed"}

\* The node carries an embedding of nonzero norm.
NonZeroEmbedding(node) == "embedding" \in DOMAIN node /\ Norm(node.embedding) # 0

\* C13 as claimed: a zero-norm embedding is treated like an absent one:
\* semantic_distance_from_parent holds a value if and only if the node and
\* its parent both carry an embedding of nonzero norm, and no stored distance
\* is the result of a division by a zero norm.
C13_ZeroNormTreatedAsAbsent ==
    Enriched =>
        \A n \in Ids :
            LET d == nodes[n].derived
                p == mapping[n].parent
            IN  /\ d.semantic_distance_from_parent # None
                       <=> (/\ p \in Ids
                            /\ NonZeroEmbedding(nodes[n])
                            /\ NonZeroEmbedding(nodes[p]))
                /\ d.semantic_distance_from_parent # NaN
                /\ "avg_sibling_semantic_distance" \in DOMAIN d
                       => d.avg_sibling_semantic_distance # NaN

SiblingSet(n) ==
    {s \in Ids \ {n} : mapping[n].parent \in Ids /\ mapping[s].parent = mapping[n].parent}

\* The siblings of n that carry an embedding.
EmbeddedSiblings(n) == {s \in SiblingSet(n) : "embedding" \in DOMAIN nodes[s]}

RECURSIVE DistanceUnits(_, _)
\* The sum, in float units, of the distances from n to the nodes of S.
DistanceUnits(n, S) ==
    IF S = {} THEN 0
    ELSE LET s == CHOOSE x \in S : TRUE
         IN  Units(calculate_cosine_distance(nodes[n].embedding, nodes[s].embedding))
                 + DistanceUnits(n, S \ {s})

\* C15: avg_sibling_semantic_distance is set on n exactly when n has an
\* embedding and at least one sibling of n has one; the value is the mean of
\* the distances from n to exactly its embedded siblings.
C15_SiblingMean ==
    Enriched =>
        \A n \in Ids :
            LET d == nodes[n].derived
            IN  /\ "avg_sibling_semantic_distance" \in DOMAIN d
                       <=> ("embedding" \in DOMAIN nodes[n] /\ EmbeddedSiblings(n) # {})
                /\ (/\ "avg_sibling_semantic_distance" \in DOMAIN d
                    /\ \A s \in EmbeddedSiblings(n) \cup {n} : NonZeroEmbedding(nodes[s]))
                       => Units(d.avg_sibling_semantic_distance)
                              = DistanceUnits(n, EmbeddedSiblings(n))
                                    \div Cardinality(EmbeddedSiblings(n))

\* C15 witness: a node with two siblings of which one is embedded: it gets
\* the distance to that one, and the sibling without embedding gets no field.
C15_Witness ==
    /\ Enriched
    /\ \E n, k \in Ids :
           /\ Cardinality(SiblingSet(n)) = 2
           /\ Cardinality(EmbeddedSiblings(n)) = 1
           /\ \A s \in EmbeddedSiblings(n) \cup {n} : NonZeroEmbedding(nodes[s])
           /\ "avg_sibling_semantic_distance" \in DOMAIN nodes[n].derived
           /\ nodes[n].derived.avg_sibling_semantic_distance = Float(FloatUnit)
           /\ k \in SiblingSet(n)
           /\ "avg_sibling_semantic_distance" \notin DOMAIN nodes[k].derived

\* C16 as claimed: after the driver's semantic derivation, a node carries
\* semantic_distance_from_mainline exactly when it is off the mainline, has
\* an embedding, and its mainline_divergence_point is an embedded mainline
\* node; the value is the cosine distance between the two.
C16_DriverDivergenceDistance ==
    pc = "enriched" =>
        \A n \in Ids :
            LET d == nodes[n].derived
                dp == d.mainline_divergence_point
            IN  /\ "semantic_distance_from_mainline" \in DOMAIN d
                       <=> (/\ ~d.is_mainline
                            /\ "embedding" \in DOMAIN nodes[n]
                            /\ dp \in Ids
                            /\ nodes[dp].derived.is_mainline
                            /\ "embedding" \in DOMAIN nodes[dp])
                /\ "semantic_distance_from_mainline" \in DOMAIN d
                       => d.semantic_distance_from_mainline
                              = calculate_cosine_distance(nodes[n].embedding,
                                                          nodes[dp].embedding)

\* A step of a later stage: it starts after the parse has returned.
StageStep == pc \in {"done", "process_pairs", "semantic_ancestry", "enriched"}

\* The step changes no node's structure and only adds to or fills its
\* embedding and derived fields.
NodesOnlyGrow ==
    \A n \in Ids :
        /\ nodes'[n].parent_id = nodes[n].parent_id
        /\ nodes'[n].children_ids = nodes[n].children_ids
        /\ nodes'[n].message = nodes[n].message
        /\ "embedding" \in DOMAIN nodes[n]
               => /\ "embedding" \in DOMAIN nodes'[n]
                  /\ nodes'[n].embedding = nodes[n].embedding
        /\ \A k \in DOMAIN nodes[n].derived :
               /\ k \in DOMAIN nodes'[n].derived
               /\ \/ nodes'[n].derived[k] = nodes[n].derived[k]
                  \/ /\ k = "semantic_distance_from_parent"
                     /\ nodes[n].derived[k] = None

\* C20: across the later stages (embedding attachment, pair embedding,
\* semantic derivation) every node's parent_id, children_ids, role and text
\* stay unchanged, an embedding once attached stays, and every derived field
\* stays present with its value, except that an unfilled one may be filled.
C20_StagesOnlyAdd == [][StageStep => NodesOnlyGrow]_vars

\* C20 witness: the driver's derivation and then the analyzer's have run on
\* a node that received all four semantic fields.
C20_Witness ==
    /\ pc = "analyzed"
    /\ \E n \in Ids :
           /\ nodes[n].derived.semantic_distance_from_parent # None
           /\ "avg_sibling_semantic_distance" \in DOMAIN nodes[n].derived
           /\ "mainline_semantic_distance" \in DOMAIN nodes[n].derived
           /\ "semantic_distance_from_mainline" \in DOMAIN nodes[n].derived
    /\ \E i \in 1..Len(pairs) : "embedding" \in DOMAIN pairs[i]

\* The parent relation of the mapping has no cycle.
Acyclic == \A n \in Ids : ~OnCycle(n)

\* p is a prefix of q.
IsPrefix(p, q) == Len(p) <= Len(q) /\ \A i \in 1..Len(p) : p[i] = q[i]

\* C28 as claimed: after a successful _parse_conversation, a non-empty
\* mainline path starts at the conversation's recorded root_id.
C28_MainlineStartsAtRootId ==
    (pc = "done" /\ mainline_path # <<>>) => mainline_path[1] = root_id

\* C29: after process_nodes on an acyclic mapping, the
\* mainline_divergence_point of a non-mainline node n is none or a mainline
\* node that occurs in n's path_from_root and is not n; it is none exactly
\* when the mainline path is empty or n's path starts at another node than
\* the mainline path; every mainline node's path_from_root is a prefix of
\* the mainline path.
C29_DivergencePointIsMainlineAncestor ==
    (Processed /\ Acyclic) =>
        \A n \in Ids :
            LET d == nodes[n].derived
                dp == d.mainline_divergence_point
            IN  /\ ~d.is_mainline =>
                       /\ dp = None
                            \/ (/\ dp \in Ids
                                /\ nodes[dp].derived.is_mainline
                                /\ InSeq(dp, d.path_from_root)
                                /\ dp # n)
                       /\ dp = None <=> (mainline_path = <<>>
                                           \/ d.path_from_root[1] # mainline_path[1])
                /\ d.is_mainline => IsPrefix(d.path_from_root, mainline_path)

\* C29 witness: an acyclic mapping with a mainline node two steps below its
\* root, a branch leaving the mainline, and a node of another tree.
C29_Witness ==
    /\ Processed /\ Acyclic
    /\ \E n, m \in Ids :
           /\ ~nodes[n].derived.is_mainline
           /\ nodes[n].derived.mainline_divergence_point \in Ids
           /\ nodes[m].derived.is_mainline
           /\ Len(nodes[m].derived.path_from_root) = 2

\* The node as it was before any semantic pass touched it.
WithoutSemanticFields(node) ==
    SetKey(node, "derived",
           [k \in DOMAIN node.derived
                  \ {"avg_sibling_semantic_distance", "semantic_distance_from_mainline"} |->
               IF k = "semantic_distance_from_parent" THEN None ELSE node.derived[k]])

\* Every pass has handled every node.
PassesFinished == pc = "passes" /\ \A p \in PassNames : pass_pos[p] = NumNodes

\* C21: the three semantic passes are independent: run in any order or
\* interleaved per node, they leave on every node the derived fields that
\* the passes run one after the other leave.
C21_PassesCommute ==
    PassesFinished =>
        nodes = calculate_semantic_ancestry([n \in Ids |-> WithoutSemanticFields(nodes[n])])

\* C21 witness: the interleaved passes have finished on a node that received
\* all three fields.
C21_Witness ==
    /\ PassesFinished
    /\ \E n \in Ids :
           /\ nodes[n].derived.semantic_distance_from_parent # None
           /\ "avg_sibling_semantic_distance" \in DOMAIN nodes[n].derived
           /\ "semantic_distance_from_mainline" \in DOMAIN nodes[n].derived

\* The outcomes of the provider calls made so far, in call order.
CallOutcomes == SelectSeq(emb_log, LAMBDA e : e # "sleep")

\* The number of valid texts among the first i input texts.
ValidUpTo(i) == Cardinality({j \in 1..i : ~StripsToEmpty(emb_texts[j])})

\* The call (1, 2, ...) that carries the j-th valid text.
CallOf(j) == ((j - 1) \div emb_batch_size) + 1

\* C22: get_embeddings_batch returns one vector per input text in input
\* order: the zero vector for an empty or whitespace-only text, and for any
\* other text the vector the provider computed for it (the zero vector when
\* the call of its batch failed).
C22_OneVectorPerTextInOrder ==
    pc = "batch_returned" =>
        /\ Len(emb_result) = Len(emb_texts)
        /\ \A i \in 1..Len(emb_texts) :
               emb_result[i] =
                   IF StripsToEmpty(emb_texts[i]) THEN ZeroVector
                   ELSE IF CallOutcomes[CallOf(ValidUpTo(i))] = "call_failed" THEN ZeroVector
                   ELSE ProviderVector(emb_texts[i])

\* C22 witness: two different proper texts around a whitespace-only one,
\* in batches of one, all calls answered.
C22_Witness ==
    /\ pc = "batch_returned"
    /\ emb_texts = <<"a", " ", "b">>
    /\ emb_batch_size = 1
    /\ emb_result = <<<<1, 0>>, ZeroVector, <<0, 1>>>>

\* C23: a failed provider call puts zero vectors in place of exactly the
\* texts of its batch, the vectors of the other batches are kept, the
\* remaining batches are still called, and the invocation returns.
C23_FailedBatchOnly ==
    pc \in {"batch_loop", "batch_returned"} =>
        /\ Len(emb_all) = (IF emb_i < Len(ValidTexts) THEN emb_i ELSE Len(ValidTexts))
        /\ \A j \in 1..Len(emb_all) :
               emb_all[j] = IF CallOutcomes[CallOf(j)] = "call_failed" THEN ZeroVector
                            ELSE ProviderVector(ValidTexts[j])
        /\ (pc = "batch_returned" /\ emb_texts # <<>>) =>
               /\ Len(emb_all) = Len(ValidTexts)
               /\ Len(CallOutcomes) * emb_batch_size >= Len(ValidTexts)
               /\ (Len(CallOutcomes) - 1) * emb_batch_size < Len(ValidTexts)
                      \/ Len(CallOutcomes) = 0

\* C23 witness: three batches of which the middle one failed.
C23_Witness ==
    /\ pc = "batch_returned"
    /\ CallOutcomes = <<"call", "call_failed", "call">>
    /\ emb_all[1] # ZeroVector /\ emb_all[2] = ZeroVector /\ emb_all[3] # ZeroVector

\* C24 as claimed: between every two successive provider calls of one
\* invocation a pacing delay occurs, whatever the outcome of the earlier
\* call, and no delay follows the last call.
C24_DelayBetweenCalls ==
    pc \in {"batch_loop", "batch_returned"} =>
        /\ \A k \in 1..(Len(emb_log) - 1) :
               emb_log[k] # "sleep" => emb_log[k + 1] = "sleep"
        /\ (pc = "batch_returned" /\ emb_log # <<>>) => emb_log[Len(emb_log)] # "sleep"

\* The texts of the parts that are strings or {text: ...} objects, in order.
RECURSIVE PartTexts(_)
PartTexts(parts) ==
    IF parts = <<>> THEN <<>>
    ELSE (IF Head(parts).kind = "str" \/ Head(parts).has_text
              THEN <<Head(parts).text>> ELSE <<>>) \o PartTexts(Tail(parts))

\* The texts joined with a single space.
RECURSIVE JoinWithSpace(_)
JoinWithSpace(texts) ==
    IF texts = <<>> THEN ""
    ELSE IF Len(texts) = 1 THEN texts[1]
    ELSE texts[1] \o " " \o JoinWithSpace(Tail(texts))

\* C27 as claimed: for a payload with parts, the text stored on the node and
\* the text handed to the embedding provider are the parts' texts joined with
\* a single space in their original order, and the content type is the
\* payload's, defaulting to text.
C27_PartsJoinedWithSpace ==
    (pc = "text_extracted" /\ ct_content.kind = "dict" /\ "parts" \in ct_content.keys) =>
        /\ ct_text = JoinWithSpace(PartTexts(ct_content.parts))
        /\ ct_provider_text = JoinWithSpace(PartTexts(ct_content.parts))
        /\ ct_type = (IF "content_type" \in ct_content.keys
                          THEN ct_content.content_type ELSE "text")

\* The rows of this call in a table set t: the header carrying this call's
\* title, and any node or pair row.
RowsOfThisCall(t) ==
    [conversations |-> {r \in t.conversations : r.title = "new"},
     nodes |-> t.nodes,
     pairs |-> t.pairs]

\* C25: store_conversation writes the header, then the nodes, then the
\* pairs in one transaction and commits only after all three; until the
\* commit, and after a failure of any step (which is raised after a
\* rollback), no header, node or pair of this call is durable.
C25_StoreIsAtomic ==
    /\ (db_pending.nodes # {} \/ pc \in {"insert_nodes", "insert_pairs", "commit"}) =>
           db_pending.conversations = {ConversationRecord(ConversationData)}
    /\ (db_pending.pairs # {} \/ pc = "commit") =>
           (nodes # <<>> => db_pending.nodes # {})
    /\ pc = "commit" => (pairs # <<>> => db_pending.pairs # {})
    /\ pc \in {"done", "insert_conversation", "insert_nodes", "insert_pairs", "commit",
               "store_raised"} =>
           RowsOfThisCall(db_committed) = EmptyTables
    /\ pc = "store_raised" => (st_failed_at # "none" /\ db_pending = EmptyTables)
    /\ pc = "stored" =>
           /\ \E r \in db_committed.conversations : r.id = ConversationId /\ r.title = "new"
           /\ Cardinality(db_committed.nodes) = Len(nodes)
           /\ Cardinality(db_committed.pairs) = Len(pairs)
           /\ st_failed_at = "none"

\* C25 witness: the pairs insert raised after the header and the nodes had
\* been written in the transaction, over a database holding an older header.
C25_Witness ==
    /\ pc = "store_raised"
    /\ st_failed_at = "insert_pairs"
    /\ nodes # <<>>
    /\ pairs # <<>>
    /\ db_committed \in InitialTables \ {EmptyTables}

\* C30 as claimed: after a successful store, the row of each pair holds the
\* pair's is_mainline, is_alternate, branch_depth and path_from_root, and the
\* row of each node holds the node's role and text, as the parser computed
\* them in the conversation handed to store_conversation.
C30_StoredEqualsParsed ==
    pc = "stored" =>
        /\ \A i \in DOMAIN pairs :
               \E r \in db_committed.pairs :
                   /\ r.prompt_id = pairs[i].prompt_id
                   /\ r.response_id = pairs[i].response_id
                   /\ r.is_mainline = pairs[i].is_mainline
                   /\ r.is_alternate = pairs[i].is_alternate
                   /\ r.branch_depth = pairs[i].branch_depth
                   /\ r.path_from_root = pairs[i].path_from_root
        /\ \A n \in DOMAIN nodes :
               \E r \in db_committed.nodes :
                   /\ r.id = n
                   /\ r.role = nodes[n].message.author.role
                   /\ r.content = nodes[n].message.content.text

\* A conversation of an export is malformed: it has no mapping, an empty
\* one, or one in which no node is without a parent.
Malformed(d) ==
    \/ "mapping" \notin DOMAIN d
    \/ d.mapping = <<>>
    \/ \A n \in DOMAIN d.mapping : d.mapping[n].parent # None

\* The store events of the file being processed, in order.
StoreEvents ==
    SelectSeq(pl_log, LAMBDA e : e.file = pl_file + 1 /\ e.event \in {"store_ok", "store_failed"})

\* C26: parse_file returns, in input order, the parsed result of every
\* conversation that is not malformed, whatever malformed ones stand among
\* them, and a file that holds such a conversation goes on to the embedding
\* and the store; a store that fails is followed by the stores of the remaining
\* conversations, and a file that fails gets an empty result and is followed
\* by the remaining files.
C26_FailuresAreLocal ==
    /\ pc \in {"embed", "store"} =>
           LET sound == SelectSeq(pl_data.conversations, LAMBDA d : ~Malformed(d))
           IN  /\ Len(pl_parsed) = Len(sound)
               /\ \A k \in 1..Len(sound) : pl_parsed[k] = parse_conversation(sound[k])
    /\ pc = "store" =>
           /\ Len(StoreEvents) = pl_store_i
           /\ \A k \in 1..pl_store_i : StoreEvents[k].id = pl_parsed[k].conversation.id
           /\ pl_ids = [k \in 1..Len(pl_ids) |->
                           SelectSeq(StoreEvents, LAMBDA e : e.event = "store_ok")[k].id]
    /\ (pc \in {"process_files", "files_returned"} /\ pl_file > 0 /\ pl_data.kind = "json"
           /\ \E k \in DOMAIN pl_data.conversations : ~Malformed(pl_data.conversations[k])) =>
           \E e \in SetOf(pl_log) :
               e.file = pl_file /\ e.event \in {"embed_failed", "store_ok", "store_failed"}
    /\ Len(pl_results) = pl_file
    /\ \A e \in SetOf(pl_log) :
           (e.event \in FileFailures /\ e.file <= pl_file) => pl_results[e.file] = <<>>
    /\ pc = "files_returned" => pl_file = Len(pl_files)

\* C26 witness: the first file was not found, and in the second file a
\* malformed conversation precedes a sound one and the call has returned
\* with the sound one stored.
C26_Witness ==
    /\ pc = "files_returned"
    /\ Len(pl_files) = 2
    /\ \E e \in SetOf(pl_log) : e.file = 1 /\ e.event = "not_found"
    /\ Len(pl_data.conversations) = 2
    /\ Malformed(pl_data.conversations[1])
    /\ pl_results[2] = <<2>>

\* C26 witness of a store failure: the store of the first conversation of a
\* file raised and the second conversation was stored after it.
C26_WitnessStore ==
    /\ pc = "store"
    /\ Len(StoreEvents) = 2
    /\ StoreEvents[1].event = "store_failed"
    /\ StoreEvents[2].event = "store_ok"
    /\ pl_ids = <<2>>

====
